---- MODULE Spec2Model ----
(***************************************************************************)
(* Model of the delegation / tool-use loop of officeLLM                    *)
(* (src/src/core/OfficeLLM.ts, the OfficeLLM / ManagerAgent / WorkerAgent  *)
(* classes that start at line 261) and of the in-memory conversation store *)
(* it writes to.                                                           *)
(*                                                                         *)
(* Text is modelled as a sequence of fragments, so that string             *)
(* concatenation is \o and "the text contains the name" is a membership    *)
(* test on the fragments.  An optional value (a field that may be          *)
(* undefined) is modelled as a sequence of length 0 or 1.                  *)
(*                                                                         *)
(* Provider contract assumed by the model: a provider either throws an     *)
(* Error or returns a response whose tool calls carry pairwise distinct    *)
(* ids and arguments built with JSON.stringify (as all the providers of    *)
(* the repository do), so JSON.parse of the arguments succeeds.            *)
(***************************************************************************)
EXTENDS Integers, Sequences, FiniteSets, TLC

VARIABLES
    cfg,        \* the OfficeLLMConfig the instance was constructed with
    mgr,        \* the frame of ManagerAgent.executeTask (locals + position)
    wk,         \* the frame of WorkerAgent.execute (locals + position)
    wk2,        \* the frame of a WorkerAgent.execute call suspended at an await
                \* while the call of wk goes on (idle unless calls overlap)
    mgr2,       \* the frame of a ManagerAgent.executeTask call suspended at an
                \* await while the call of mgr goes on (idle unless tasks overlap)
    wmessages,  \* WorkerAgent.messages, per registered worker
    store,      \* InMemoryStorage.conversations
    ops,        \* number of top-level calls started so far
    nCalls,     \* number of provider.chat calls made since the initial state
    nRequests,  \* number of tool calls the providers have requested since then
    now,        \* the clock read by `new Date()`
    ev          \* the step that was taken last (history variable)

vars == <<cfg, mgr, wk, wk2, mgr2, wmessages, store, ops, nCalls, nRequests, now, ev>>

-----------------------------------------------------------------------------
(* Bounds of the model *)

MaxOps == 2
MaxCalls == 3
MaxRequests == 2

-----------------------------------------------------------------------------
(* Names and inputs *)

ToolNames == {"add", "search"}

None == <<>>
Some(v) == <<v>>

CeilingConfigs == {None, Some(0), Some(1), Some(2)}
RestrictedConfigs == {None, Some({"calc"})}

WindowConfigs == {Some(0), Some(1), Some(2), Some(3)}

ManagerConfigs ==
    [maxIterations : CeilingConfigs, restrictedWorkers : RestrictedConfigs,
     contextWindow : {None}]

\* a worker without ceiling and without implementations, and workers with
\* each configured ceiling that implement "add" but not "search"
WorkerConfigs ==
    {[maxIterations |-> None, toolImplementations |-> None, contextWindow |-> None]}
    \cup [maxIterations : CeilingConfigs \ {None}, toolImplementations : {Some({"add"})},
          contextWindow : {None}]

\* the configurations the instance is constructed with: one worker "calc",
\* every manager configuration with a worker of ceiling 1, and every worker
\* configuration with a manager that configures nothing; two workers, "calc"
\* restricted and "writer" not; one worker "calc" with each configured
\* context window for the manager and the worker; these with an
\* InMemoryStorage, one configuration with a registered memory whose writes
\* may throw, and one configuration without a memory entry
Configurations ==
    {[memory |-> "in-memory", manager |-> m,
      workers |-> [w \in {"calc"} |->
                     [maxIterations |-> Some(1), toolImplementations |-> Some({"add"}),
                      contextWindow |-> None]]] : m \in ManagerConfigs}
    \cup {[memory |-> "in-memory",
           manager |-> [maxIterations |-> None, restrictedWorkers |-> None,
                        contextWindow |-> None],
           workers |-> [w \in {"calc"} |-> c]] : c \in WorkerConfigs}
    \cup {[memory |-> "in-memory",
           manager |-> [maxIterations |-> Some(1), restrictedWorkers |-> Some({"calc"}),
                        contextWindow |-> None],
           workers |-> [w \in {"calc", "writer"} |->
                          [maxIterations |-> Some(1), toolImplementations |-> Some({"add"}),
                           contextWindow |-> None]]]}
    \cup {[memory |-> "in-memory",
           manager |-> [maxIterations |-> Some(2), restrictedWorkers |-> None,
                        contextWindow |-> cw],
           workers |-> [w \in {"calc"} |->
                          [maxIterations |-> Some(2), toolImplementations |-> Some({"add"}),
                           contextWindow |-> cw]]] : cw \in WindowConfigs}
    \cup {[memory |-> "custom",
           manager |-> [maxIterations |-> Some(2), restrictedWorkers |-> None,
                        contextWindow |-> None],
           workers |-> [w \in {"calc"} |->
                          [maxIterations |-> Some(1), toolImplementations |-> Some({"add"}),
                           contextWindow |-> None]]]}
    \cup {[memory |-> "none",
           manager |-> [maxIterations |-> Some(1), restrictedWorkers |-> None,
                        contextWindow |-> None],
           workers |-> [w \in {"calc"} |->
                          [maxIterations |-> Some(1), toolImplementations |-> Some({"add"}),
                           contextWindow |-> None]]]}

\* a name under which no worker is registered
UnregisteredNames == {"ghost"}

Payloads == {[task |-> "t"]}
Tasks == {[title |-> "T", description |-> "D", priority |-> None]}
ResponseTexts == {<<"answer">>}
ErrorTexts == {<<"provider down">>}
ToolErrorTexts == {<<"tool failed">>}
ToolTexts == {<<"tool output">>}

ZeroUsage == [promptTokens |-> 0, completionTokens |-> 0, totalTokens |-> 0]
Usages == {None, Some([promptTokens |-> 1, completionTokens |-> 2, totalTokens |-> 3])}

-----------------------------------------------------------------------------
(* Pure parts of the code *)

DefaultManagerMaxIterations == 20
DefaultWorkerMaxIterations == 25

\* the keys of OfficeLLM.workers
Workers == DOMAIN cfg.workers

\* the names the manager's provider may put into a tool call: the workers,
\* and a name that is no worker
RequestableWorkers == Workers \cup {"ghost"}

\* `config.maxIterations || d`: undefined and 0 are both falsy
OrDefault(opt, d) == IF opt = None THEN d ELSE IF opt[1] = 0 THEN d ELSE opt[1]

managerMaxIterations == OrDefault(cfg.manager.maxIterations, DefaultManagerMaxIterations)
\* a worker without ceiling of its own following the manager's
workerMaxIterations_followsManager(w) ==
    OrDefault(cfg.workers[w].maxIterations, managerMaxIterations)

workerMaxIterations(w) == OrDefault(cfg.workers[w].maxIterations, DefaultWorkerMaxIterations)

DefaultContextWindow == 10

\* `config.contextWindow || 10`
managerContextWindow == OrDefault(cfg.manager.contextWindow, DefaultContextWindow)
workerContextWindow(w) == OrDefault(cfg.workers[w].contextWindow, DefaultContextWindow)

\* Array.prototype.slice(-k) for k >= 0: the last k elements, and the whole
\* array for k = 0 (-0 is 0, and slice(0) copies everything)
sliceFromEnd(messages, k) ==
    IF k = 0 \/ k >= Len(messages) THEN messages
    ELSE SubSeq(messages, Len(messages) - k + 1, Len(messages))

\* applyContextWindow without the trimming
applyContextWindow_ignoresWindow(messages, contextWindow) == messages

\* applyContextWindow: the sequence handed to provider.chat
applyContextWindow(messages, contextWindow) ==
    IF Len(messages) <= contextWindow THEN messages
    ELSE <<messages[1]>> \o sliceFromEnd(messages, contextWindow - 1)

\* the window applied in place: the array itself is cut down to the view
messagesAfterWindow_truncates(messages, contextWindow) ==
    applyContextWindow(messages, contextWindow)

\* the array after applyContextWindow: slice and the spread build new arrays,
\* the array of the agent is left as it is
messagesAfterWindow(messages, contextWindow) == messages

\* the loop without ceiling
loopContinues_unbounded(iteration, maxIterations) == TRUE

\* the loop condition off by one
loopContinues_inclusive(iteration, maxIterations) == iteration <= maxIterations

\* `while (iteration < this.maxIterations)`
loopContinues(iteration, maxIterations) == iteration < maxIterations

\* `config.toolImplementations || {}`
toolImplementations(w) ==
    IF cfg.workers[w].toolImplementations = None THEN {}
    ELSE cfg.workers[w].toolImplementations[1]

\* the restriction test without the test of the list
notRestricted_ignoresList(name) == TRUE

\* `!this.config.restrictedWorkers || !this.config.restrictedWorkers.includes(name)`
notRestricted(name) ==
    IF cfg.manager.restrictedWorkers = None THEN TRUE
    ELSE name \notin cfg.manager.restrictedWorkers[1]

\* the names of the tool definitions handed to the manager's provider
workerTools == {name \in Workers : notRestricted(name)}

\* `workers.get(name)` is defined and the name is not restricted
resolvesWorker(name) == name \in Workers /\ notRestricted(name)

\* the accumulation with totalTokens left out
accumulate_dropsTotal(total, usage) ==
    IF usage = None THEN total
    ELSE [promptTokens |-> total.promptTokens + usage[1].promptTokens,
          completionTokens |-> total.completionTokens + usage[1].completionTokens,
          totalTokens |-> total.totalTokens]

\* `if (response.usage) { totalUsage.x += response.usage.x ... }`
accumulate(total, usage) ==
    IF usage = None THEN total
    ELSE [promptTokens |-> total.promptTokens + usage[1].promptTokens,
          completionTokens |-> total.completionTokens + usage[1].completionTokens,
          totalTokens |-> total.totalTokens + usage[1].totalTokens]

\* `task.priority || 'medium'`
\* the user turn made of the title alone
managerUserMessage_titleOnly(task) ==
    [role |-> "user", content |-> <<"Task: ", task.title>>]

managerUserMessage(task) ==
    [role |-> "user",
     content |-> <<"Task: ", task.title, "\n\nDescription: ", task.description,
                   "\n\nPriority: ",
                   IF task.priority = None THEN "medium" ELSE task.priority[1]>>]

managerSystemMessage == [role |-> "system", content |-> <<"manager system prompt">>]
workerSystemMessage(w) == [role |-> "system", content |-> <<"system prompt of ", w>>]

\* Object.entries(params).map(([k, v]) => `${k}: ${JSON.stringify(v)}`).join('\n')
workerUserMessage(params) ==
    [role |-> "user", content |-> <<"task", ": ", "\"", params.task, "\"">>]

\* the assistant turn pushed without the requests of the response
assistantMessage_dropsToolCalls(response) ==
    [role |-> "assistant", content |-> response.content, toolCalls |-> <<>>]

assistantMessage(response) ==
    [role |-> "assistant", content |-> response.content, toolCalls |-> response.toolCalls]

finalAssistantMessage(response) ==
    [role |-> "assistant", content |-> response.content]

\* the tool turn carrying the tool's name in place of the request's id
toolMessage_nameAsId(content, toolCall) ==
    [role |-> "tool", content |-> content, toolCallId |-> toolCall.name]

\* the tool turn without the request's id
toolMessage_withoutId(content, toolCall) ==
    [role |-> "tool", content |-> content, toolCallId |-> <<0, 0>>]

toolMessage(content, toolCall) ==
    [role |-> "tool", content |-> content, toolCallId |-> toolCall.id]

ManagerMaxIterationsText ==
    <<"Task execution stopped: Maximum iterations reached. Partial results may be available.">>
WorkerMaxIterationsText ==
    <<"Worker execution stopped: Maximum iterations reached. Partial results may be available.">>

\* the final result without the response's text
completedResult_emptyContent(response, totalUsage) ==
    [success |-> TRUE, content |-> <<>>, usage |-> totalUsage]

completedResult(response, totalUsage) ==
    [success |-> TRUE, content |-> response.content, usage |-> totalUsage]

\* ceiling exhaustion reported as a failure
managerCeilingResult_fails(totalUsage) ==
    [success |-> FALSE, content |-> <<>>, error |-> ManagerMaxIterationsText,
     usage |-> totalUsage]

managerCeilingResult(totalUsage) ==
    [success |-> TRUE, content |-> ManagerMaxIterationsText, usage |-> totalUsage]

workerCeilingResult(totalUsage) ==
    [success |-> TRUE, content |-> WorkerMaxIterationsText, usage |-> totalUsage]

\* the catch block returning fresh counters instead of totalUsage
failedResult_resetsUsage(message, totalUsage) ==
    [success |-> FALSE, content |-> <<>>, error |-> message, usage |-> ZeroUsage]

\* the result built in the catch block
failedResult(message, totalUsage) ==
    [success |-> FALSE, content |-> <<>>, error |-> message, usage |-> totalUsage]

missingImplementationText(toolName) ==
    <<"Tool \"", toolName,
      "\" has no implementation provided. Please add the tool implementation to the worker configuration.">>

toolErrorText(toolName, message) ==
    <<"Error executing tool \"", toolName, "\": ">> \o message

\* executeTool answering with a text instead of throwing when the
\* implementation is missing
executeTool_missingAsText(w, toolName, behaviour) ==
    IF toolName \in toolImplementations(w)
    THEN IF behaviour.kind = "return"
         THEN [thrown |-> FALSE, value |-> behaviour.text]
         ELSE [thrown |-> FALSE, value |-> toolErrorText(toolName, behaviour.message)]
    ELSE [thrown |-> FALSE, value |-> missingImplementationText(toolName)]

\* executeTool without its try/catch: the Error of the implementation escapes
executeTool_rethrows(w, toolName, behaviour) ==
    IF toolName \in toolImplementations(w)
    THEN IF behaviour.kind = "return"
         THEN [thrown |-> FALSE, value |-> behaviour.text]
         ELSE [thrown |-> TRUE, value |-> behaviour.message]
    ELSE [thrown |-> TRUE, value |-> missingImplementationText(toolName)]

\* WorkerAgent.executeTool: behaviour is what the registered implementation
\* does when it is called (returns a text or throws an Error)
executeTool(w, toolName, behaviour) ==
    IF toolName \in toolImplementations(w)
    THEN IF behaviour.kind = "return"
         THEN [thrown |-> FALSE, value |-> behaviour.text]
         ELSE [thrown |-> FALSE, value |-> toolErrorText(toolName, behaviour.message)]
    ELSE [thrown |-> TRUE, value |-> missingImplementationText(toolName)]

\* the tool turn content without the success test
workerResultText_contentOnly(workerResult) == workerResult.content

\* `workerResult.success ? workerResult.content : `Error: ${workerResult.error}``
workerResultText(workerResult) ==
    IF workerResult.success THEN workerResult.content
    ELSE <<"Error: ">> \o workerResult.error

\* the dispatch ending the turn after a request, the remaining requests
\* left without tool turn
afterDispatch_skipsRest(pending) == "loop"

\* after a tool turn: the next request of the turn, or the next round
afterDispatch(pending) == IF Tail(pending) = <<>> THEN "loop" ELSE "dispatch"

unresolvedWorkerText(name) ==
    <<"Error: Worker '", name, "' not found or restricted">>

\* InMemoryStorage.conversations is a Map; the conversation objects built by
\* the agents carry no id, so `conversation.id` is undefined for all of them
\* (the key undefined is written "undefined")
MaxConversations == 1000
conversationId(conversation) ==
    IF "id" \in DOMAIN conversation THEN conversation.id ELSE "undefined"

\* `config.maxConversations || 1000`
maxConversations ==
    IF "maxConversations" \in DOMAIN cfg
    THEN OrDefault(cfg.maxConversations, MaxConversations)
    ELSE MaxConversations

\* InMemoryStorage.findOldestConversation: the key with the smallest
\* updatedAt, null for an empty Map.  The clock advances between two writes,
\* so no two stored conversations carry the same updatedAt and the first
\* minimum found by the loop is the only one.
findOldestConversation(conversations) ==
    IF DOMAIN conversations = {} THEN None
    ELSE Some(CHOOSE k \in DOMAIN conversations :
                \A j \in DOMAIN conversations :
                    conversations[k].updatedAt <= conversations[j].updatedAt)

\* `if (oldestId)`: null, undefined and the empty string are falsy
evicts(oldestId) == oldestId # None /\ oldestId[1] \notin {"undefined", ""}

\* `this.conversations.size >= this.maxConversations`
atLimit(conversations) == Cardinality(DOMAIN conversations) >= maxConversations

\* InMemoryStorage.storeConversation
storeConversation(conversations, conversation) ==
    LET oldest == findOldestConversation(conversations)
        kept == IF atLimit(conversations) /\ evicts(oldest)
                THEN [k \in DOMAIN conversations \ {oldest[1]} |-> conversations[k]]
                ELSE conversations
        id == conversationId(conversation)
    IN [k \in DOMAIN kept \cup {id} |-> IF k = id THEN conversation ELSE kept[k]]

\* InMemoryStorage.getConversation: the stored conversation, or null
getConversation(conversations, id) ==
    IF id \in DOMAIN conversations THEN Some(conversations[id]) ELSE None

\* InMemoryStorage.updateConversation for a key the Map holds: the stored
\* object is given the new turn list and the time of the call
updateConversation(conversations, id, messages, time) ==
    [conversations EXCEPT ![id] = [@ EXCEPT !.messages = messages, !.live = FALSE,
                                            !.updatedAt = time]]

\* `Conversation with id ${id} not found`
updateConversationError(id) == <<"Conversation with id ", id, " not found">>

\* InMemoryStorage.deleteConversation
deleteConversation(conversations, id) ==
    [k \in DOMAIN conversations \ {id} |-> conversations[k]]

\* InMemoryStorage.clear
clear(conversations) == [k \in {} |-> 0]

\* ManagerAgent.storeConversation builds this object; messages is the local
\* array of the finished executeTask call
managerConversation(messages, time) ==
    [agentType |-> "manager", agentName |-> "manager", live |-> FALSE,
     messages |-> messages, createdAt |-> time, updatedAt |-> time]

\* WorkerAgent.storeConversation builds this object; its messages field is
\* the array this.messages itself (live), not a copy of it
workerConversation(w, time) ==
    [agentType |-> "worker", agentName |-> w, live |-> TRUE,
     messages |-> <<>>, createdAt |-> time, updatedAt |-> time]

\* the turns a stored conversation shows when it is read back
storedMessages(conversation) ==
    IF conversation.live THEN wmessages[conversation.agentName]
    ELSE conversation.messages

-----------------------------------------------------------------------------
(* What the collaborators may answer *)

\* the tool calls of one response: at least one request, ids distinct; the
\* model stops requesting once MaxRequests requests were made in the run
ToolCallLists(names, callNo) ==
    UNION {{[i \in 1..k |-> [id |-> <<callNo, i>>, name |-> f[i], arguments |-> p]] :
              f \in [1..k -> names], p \in Payloads} : k \in 1..(MaxRequests - nRequests)}

Responses(names, callNo) ==
    [content : ResponseTexts, toolCalls : {<<>>} \cup ToolCallLists(names, callNo),
     usage : Usages]

ToolBehaviours ==
    {[kind |-> "return", text |-> t] : t \in ToolTexts}
    \cup {[kind |-> "throw", message |-> m] : m \in ToolErrorTexts}

-----------------------------------------------------------------------------
(* Frames: the locals of one call and its position, with history fields      *)
(* calls (provider calls made by the loop), observed (the usage of every      *)
(* provider call made during the call, delegated workers included), stores    *)
(* (store writes), exit (how the loop was left), fault (the message of the    *)
(* Error that reached the catch block), seen (non-fatal incidents) and, for   *)
(* a worker, own (the positions in this.messages of the turns the call        *)
(* pushed)                                                                    *)

observe(sum, usage) ==
    IF usage = None THEN sum
    ELSE [promptTokens |-> sum.promptTokens + usage[1].promptTokens,
          completionTokens |-> sum.completionTokens + usage[1].completionTokens,
          totalTokens |-> sum.totalTokens + usage[1].totalTokens]

ManagerIdle ==
    [pc |-> "idle", messages |-> <<>>, iteration |-> 0, totalUsage |-> ZeroUsage,
     pending |-> <<>>, result |-> None,
     calls |-> 0, observed |-> ZeroUsage, stores |-> 0, exit |-> "none",
     fault |-> None, seen |-> {}]

WorkerIdle ==
    [pc |-> "idle", name |-> "none", caller |-> "none", iteration |-> 0,
     totalUsage |-> ZeroUsage, pending |-> <<>>, result |-> None,
     calls |-> 0, observed |-> ZeroUsage, stores |-> 0, exit |-> "none",
     fault |-> None, seen |-> {}, own |-> {}]

Quiet == mgr.pc \in {"idle", "returned"} /\ wk.pc \in {"idle", "returned"}

Init ==
    /\ cfg \in Configurations
    /\ mgr = ManagerIdle
    /\ wk = WorkerIdle
    /\ wk2 = WorkerIdle
    /\ mgr2 = ManagerIdle
    /\ wmessages = [w \in DOMAIN cfg.workers |-> <<workerSystemMessage(w)>>]
    /\ store = [k \in {} |-> 0]
    /\ ops = 0
    /\ nCalls = 0
    /\ nRequests = 0
    /\ now = 0
    /\ ev = [type |-> "constructed"]

-----------------------------------------------------------------------------
(* OfficeLLM.executeTask -> ManagerAgent.executeTask, up to the loop *)

ExecuteTask ==
    /\ Quiet
    /\ ops < MaxOps
    /\ \E task \in Tasks :
         /\ mgr' = [ManagerIdle EXCEPT !.pc = "loop",
                       !.messages = <<managerSystemMessage, managerUserMessage(task)>>]
         /\ ev' = [type |-> "executeTask", task |-> task]
    /\ ops' = ops + 1
    /\ UNCHANGED <<cfg, mgr2, wk2, wk, wmessages, store, nCalls, now, nRequests>>

\* a failed write turned into a failed result
resultAfterStore_propagates(result, written) ==
    IF written THEN result
    ELSE [success |-> FALSE, content |-> <<>>, error |-> <<"store down">>,
          usage |-> result.usage]

\* the result object returned after `await this.storeConversation(...)`:
\* storeConversation returns normally whether the write succeeded or not
resultAfterStore(result, written) == result

\* leaving executeTask: `await this.storeConversation(messages)`, then return
managerExit(frame, result, how, fault) ==
    [frame EXCEPT !.pc = "returned", !.result = Some(result),
                  !.stores = @ + 1, !.exit = how, !.fault = fault]

\* OfficeLLM.constructor: this.memory is the configured memory, or a new
\* InMemoryStorage when the configuration has no memory entry
memory == IF cfg.memory = "none" THEN "in-memory" ELSE cfg.memory

\* whether memory.storeConversation returns (TRUE) or throws (FALSE): the write
\* of InMemoryStorage has no throwing path, that of a registered memory may throw
StoreOutcomes == IF memory = "in-memory" THEN {TRUE} ELSE BOOLEAN

\* ManagerAgent.storeConversation without the write
ManagerStore_skips(written) == UNCHANGED <<store, now>>

\* ManagerAgent.storeConversation: written tells whether
\* memory.storeConversation returned or threw (its catch swallows the Error)
ManagerStore(written) ==
    IF memory = "none" THEN UNCHANGED <<store, now>>
    ELSE /\ store' = IF written
                     THEN storeConversation(store, managerConversation(mgr'.messages, now))
                     ELSE store
         /\ now' = now + 1

\* one round of the manager loop: the provider call and what follows it up
\* to the next await
ManagerChatThrows ==
    /\ mgr.pc = "loop"
    /\ loopContinues(mgr.iteration, managerMaxIterations)
    /\ nCalls < MaxCalls
    /\ \E message \in ErrorTexts, written \in StoreOutcomes :
         /\ mgr' = managerExit([mgr EXCEPT !.iteration = @ + 1, !.calls = @ + 1,
                                   !.messages = messagesAfterWindow(@, managerContextWindow)],
                               resultAfterStore(failedResult(message, mgr.totalUsage), written),
                               "provider", Some(message))
         /\ ev' = [type |-> "providerThrew", agent |-> "manager", message |-> message,
                   tools |-> workerTools,
                   sent |-> applyContextWindow(mgr.messages, managerContextWindow),
                   written |-> written]
         /\ ManagerStore(written)
    /\ nCalls' = nCalls + 1
    /\ UNCHANGED <<cfg, mgr2, wk2, wk, wmessages, ops, nRequests>>

ManagerChatCompletes ==
    /\ mgr.pc = "loop"
    /\ loopContinues(mgr.iteration, managerMaxIterations)
    /\ nCalls < MaxCalls
    /\ \E response \in Responses(RequestableWorkers, nCalls + 1), written \in StoreOutcomes :
         /\ response.toolCalls = <<>>
         /\ LET totalUsage == accumulate(mgr.totalUsage, response.usage)
            IN mgr' = managerExit([mgr EXCEPT !.iteration = @ + 1, !.calls = @ + 1,
                                      !.totalUsage = totalUsage,
                                      !.observed = observe(@, response.usage),
                                      !.messages = messagesAfterWindow(@, managerContextWindow)],
                                  resultAfterStore(completedResult(response, totalUsage), written),
                                  "completed", None)
         /\ ev' = [type |-> "response", agent |-> "manager", response |-> response,
                   tools |-> workerTools,
                   sent |-> applyContextWindow(mgr.messages, managerContextWindow),
                   written |-> written]
         /\ ManagerStore(written)
    /\ nCalls' = nCalls + 1
    /\ UNCHANGED <<cfg, mgr2, wk2, wk, wmessages, ops, nRequests>>

ManagerChatRequests ==
    /\ mgr.pc = "loop"
    /\ loopContinues(mgr.iteration, managerMaxIterations)
    /\ nCalls < MaxCalls
    /\ \E response \in Responses(RequestableWorkers, nCalls + 1) :
         /\ response.toolCalls # <<>>
         /\ mgr' = [mgr EXCEPT !.iteration = @ + 1, !.calls = @ + 1,
                       !.totalUsage = accumulate(@, response.usage),
                       !.observed = observe(@, response.usage),
                       !.messages = Append(messagesAfterWindow(@, managerContextWindow),
                                           assistantMessage(response)),
                       !.pending = response.toolCalls,
                       !.pc = "dispatch"]
         /\ nRequests' = nRequests + Len(response.toolCalls)
         /\ ev' = [type |-> "response", agent |-> "manager", response |-> response,
                   tools |-> workerTools,
                   sent |-> applyContextWindow(mgr.messages, managerContextWindow)]
    /\ nCalls' = nCalls + 1
    /\ UNCHANGED <<cfg, mgr2, wk2, wk, wmessages, store, ops, now>>

\* the loop condition fails: "Max iterations reached"
ManagerCeiling ==
    /\ mgr.pc = "loop"
    /\ ~loopContinues(mgr.iteration, managerMaxIterations)
    /\ \E written \in StoreOutcomes :
         /\ mgr' = managerExit(mgr, resultAfterStore(managerCeilingResult(mgr.totalUsage), written),
                               "ceiling", None)
         /\ ev' = [type |-> "ceiling", agent |-> "manager", written |-> written]
         /\ ManagerStore(written)
    /\ UNCHANGED <<cfg, mgr2, wk2, wk, wmessages, ops, nCalls, nRequests>>

\* the else branch of the dispatch: worker not found or restricted
ManagerDispatchUnresolved ==
    /\ mgr.pc = "dispatch"
    /\ LET toolCall == Head(mgr.pending)
       IN /\ ~resolvesWorker(toolCall.name)
          /\ mgr' = [mgr EXCEPT
                       !.messages = Append(@, toolMessage(unresolvedWorkerText(toolCall.name), toolCall)),
                       !.pending = Tail(@),
                       !.pc = afterDispatch(mgr.pending),
                       !.seen = @ \cup {"unresolved"}]
          /\ ev' = [type |-> "unresolved", toolCall |-> toolCall]
    /\ UNCHANGED <<cfg, mgr2, wk2, wk, wmessages, store, ops, nCalls, now, nRequests>>

\* every invocation starting over from the system turn
pushUserMessage_restarts(messages, params) ==
    <<Head(messages), workerUserMessage(params)>>

\* every invocation pushing the system turn again before its user turn
pushUserMessage_withSystem(messages, params) ==
    Append(Append(messages, Head(messages)), workerUserMessage(params))

\* `this.messages.push({ role: 'user', content: userMessage })`
pushUserMessage(messages, params) == Append(messages, workerUserMessage(params))

\* WorkerAgent.execute up to its loop: the user turn is pushed on this.messages
workerStart(w, params, caller) ==
    /\ wk' = [WorkerIdle EXCEPT !.pc = "loop", !.name = w, !.caller = caller,
                                !.own = {Len(wmessages[w]) + 1}]
    /\ wmessages' = [wmessages EXCEPT ![w] = pushUserMessage(@, params)]

\* the then branch of the dispatch, up to `await worker.execute(workerParams)`
ManagerDelegate ==
    /\ mgr.pc = "dispatch"
    /\ LET toolCall == Head(mgr.pending)
       IN /\ resolvesWorker(toolCall.name)
          /\ workerStart(toolCall.name, toolCall.arguments, "manager")
          /\ mgr' = [mgr EXCEPT !.pc = "await"]
          /\ ev' = [type |-> "delegated", toolCall |-> toolCall]
    /\ UNCHANGED <<cfg, mgr2, wk2, store, ops, nCalls, now, nRequests>>

\* worker.execute has returned: fold its usage, push the tool turn
ManagerWorkerReturns ==
    /\ mgr.pc = "await"
    /\ wk.pc = "returned"
    /\ wk.caller = "manager"
    /\ LET toolCall == Head(mgr.pending)
           workerResult == wk.result[1]
       IN /\ mgr' = [mgr EXCEPT
                       !.totalUsage = accumulate(@, Some(workerResult.usage)),
                       !.messages = Append(@, toolMessage(workerResultText(workerResult), toolCall)),
                       !.pending = Tail(@),
                       !.pc = afterDispatch(mgr.pending),
                       !.seen = @ \cup (IF workerResult.success THEN {} ELSE {"workerFailed"})]
          /\ ev' = [type |-> "workerReturned", toolCall |-> toolCall,
                    workerResult |-> workerResult]
    /\ wk' = WorkerIdle
    /\ UNCHANGED <<cfg, mgr2, wk2, wmessages, store, ops, nCalls, now, nRequests>>

-----------------------------------------------------------------------------
(* OfficeLLM.callWorker -> WorkerAgent.execute *)

\* callWorker refusing the workers of the manager's restrictedWorkers list
CallWorker_refusesRestricted ==
    /\ Quiet
    /\ ops < MaxOps
    /\ \E w \in Workers, params \in Payloads :
         IF notRestricted(w)
         THEN /\ workerStart(w, params, "direct")
              /\ ev' = [type |-> "callWorker", worker |-> w, params |-> params]
         ELSE /\ ev' = [type |-> "callWorkerThrew", worker |-> w, params |-> params,
                        error |-> unresolvedWorkerText(w)]
              /\ UNCHANGED <<wk, wmessages>>
    /\ ops' = ops + 1
    /\ UNCHANGED <<cfg, mgr2, wk2, mgr, store, nCalls, now, nRequests>>

CallWorker ==
    /\ Quiet
    /\ ops < MaxOps
    /\ \E w \in Workers, params \in Payloads :
         /\ workerStart(w, params, "direct")
         /\ ev' = [type |-> "callWorker", worker |-> w, params |-> params]
    /\ ops' = ops + 1
    /\ UNCHANGED <<cfg, mgr2, wk2, mgr, store, nCalls, now, nRequests>>

\* the Error of callWorker worded as the manager's tool turn for a worker
\* that is not found
callWorkerError_asToolTurn(workerName) ==
    <<"Error: Worker '", workerName, "' not found or restricted">>

\* `Worker '${workerName}' not found`
callWorkerError(workerName) == <<"Worker '", workerName, "' not found">>

\* OfficeLLM.callWorker with a name that this.workers does not hold: the
\* Error is thrown before anything else is done
CallWorkerUnknown ==
    /\ Quiet
    /\ ops < MaxOps
    /\ \E workerName \in UnregisteredNames \ Workers, params \in Payloads :
         ev' = [type |-> "callWorkerThrew", worker |-> workerName, params |-> params,
                error |-> callWorkerError(workerName)]
    /\ UNCHANGED <<cfg, mgr2, wk2, mgr, wk, wmessages, store, ops, nCalls, now, nRequests>>

\* WorkerAgent.resetHistory with the system turn forgotten
resetHistory_clears(w) == <<>>

\* WorkerAgent.resetHistory: this.messages is bound to a new array
resetHistory(w) == <<workerSystemMessage(w)>>

\* the reset taking the worker's stored conversation out of the store
detach_dropsStored(conversations, w) ==
    LET kept == {k \in DOMAIN conversations :
                   ~(conversations[k].live /\ conversations[k].agentName = w)}
    IN [k \in kept |-> conversations[k]]

\* a stored conversation keeps the array it was given: once the worker's
\* this.messages is bound to a new array, the stored one no longer follows it
detach(conversations, w) ==
    [k \in DOMAIN conversations |->
        IF conversations[k].live /\ conversations[k].agentName = w
        THEN [conversations[k] EXCEPT !.live = FALSE, !.messages = wmessages[w]]
        ELSE conversations[k]]

\* OfficeLLM.resetWorkerHistory -> WorkerAgent.resetHistory
ResetWorkerHistory ==
    /\ Quiet
    /\ ops < MaxOps
    /\ \E w \in Workers :
         /\ wmessages' = [wmessages EXCEPT ![w] = resetHistory(w)]
         /\ store' = detach(store, w)
         /\ ev' = [type |-> "resetWorkerHistory", worker |-> w]
    /\ UNCHANGED <<cfg, mgr2, wk2, mgr, wk, ops, nCalls, now, nRequests>>

\* `Worker '${workerName}' not found`
resetWorkerHistoryError(workerName) == <<"Worker '", workerName, "' not found">>

\* OfficeLLM.resetWorkerHistory with a name that this.workers does not hold
ResetWorkerHistoryUnknown ==
    /\ Quiet
    /\ ops < MaxOps
    /\ \E workerName \in UnregisteredNames \ Workers :
         ev' = [type |-> "resetWorkerHistoryThrew", worker |-> workerName,
                error |-> resetWorkerHistoryError(workerName)]
    /\ UNCHANGED <<cfg, mgr2, wk2, mgr, wk, wmessages, store, ops, nCalls, now, nRequests>>

\* every stored conversation keeps the array it was given
detachAll(conversations) ==
    [k \in DOMAIN conversations |->
        IF conversations[k].live
        THEN [conversations[k] EXCEPT !.live = FALSE,
                                      !.messages = wmessages[conversations[k].agentName]]
        ELSE conversations[k]]

\* OfficeLLM.resetAllWorkerHistory: resetHistory of every registered worker
ResetAllWorkerHistory ==
    /\ Quiet
    /\ ops < MaxOps
    /\ wmessages' = [w \in Workers |-> resetHistory(w)]
    /\ store' = detachAll(store)
    /\ ev' = [type |-> "resetAllWorkerHistory"]
    /\ UNCHANGED <<cfg, mgr2, wk2, mgr, wk, ops, nCalls, now, nRequests>>

\* leaving execute: `await this.storeConversation(this.messages)`, then return
workerExit(frame, result, how, fault) ==
    [frame EXCEPT !.pc = "returned", !.result = Some(result),
                  !.stores = @ + 1, !.exit = how, !.fault = fault]

\* WorkerAgent.storeConversation, as ManagerAgent.storeConversation
WorkerStore(written) ==
    IF memory = "none" THEN UNCHANGED <<store, now>>
    ELSE /\ store' = IF written
                     THEN storeConversation(store, workerConversation(wk.name, now))
                     ELSE store
         /\ now' = now + 1

\* every provider call of a delegated worker happens during the manager's
\* execution as well
observedByManager(usage) ==
    IF wk.caller = "manager" THEN [mgr EXCEPT !.observed = observe(@, usage)] ELSE mgr

WorkerChatThrows ==
    /\ wk.pc = "loop"
    /\ loopContinues(wk.iteration, workerMaxIterations(wk.name))
    /\ nCalls < MaxCalls
    /\ \E message \in ErrorTexts, written \in StoreOutcomes :
         /\ wk' = workerExit([wk EXCEPT !.iteration = @ + 1, !.calls = @ + 1],
                             resultAfterStore(failedResult(message, wk.totalUsage), written),
                             "provider", Some(message))
         /\ wmessages' = [wmessages EXCEPT
                            ![wk.name] = messagesAfterWindow(@, workerContextWindow(wk.name))]
         /\ ev' = [type |-> "providerThrew", agent |-> "worker", message |-> message,
                   tools |-> ToolNames,
                   sent |-> applyContextWindow(wmessages[wk.name], workerContextWindow(wk.name)),
                   written |-> written]
         /\ WorkerStore(written)
    /\ nCalls' = nCalls + 1
    /\ UNCHANGED <<cfg, mgr2, wk2, mgr, ops, nRequests>>

WorkerChatCompletes ==
    /\ wk.pc = "loop"
    /\ loopContinues(wk.iteration, workerMaxIterations(wk.name))
    /\ nCalls < MaxCalls
    /\ \E response \in Responses(ToolNames, nCalls + 1), written \in StoreOutcomes :
         /\ response.toolCalls = <<>>
         /\ LET totalUsage == accumulate(wk.totalUsage, response.usage)
            IN wk' = workerExit([wk EXCEPT !.iteration = @ + 1, !.calls = @ + 1,
                                    !.totalUsage = totalUsage,
                                    !.observed = observe(@, response.usage),
                                    !.own = @ \cup {Len(wmessages[wk.name]) + 1}],
                                resultAfterStore(completedResult(response, totalUsage), written),
                                "completed", None)
         /\ wmessages' = [wmessages EXCEPT
                            ![wk.name] = Append(messagesAfterWindow(@, workerContextWindow(wk.name)),
                                                finalAssistantMessage(response))]
         /\ mgr' = observedByManager(response.usage)
         /\ ev' = [type |-> "response", agent |-> "worker", response |-> response,
                   tools |-> ToolNames,
                   sent |-> applyContextWindow(wmessages[wk.name], workerContextWindow(wk.name)),
                   written |-> written]
         /\ WorkerStore(written)
    /\ nCalls' = nCalls + 1
    /\ UNCHANGED <<cfg, mgr2, wk2, ops, nRequests>>

WorkerChatRequests ==
    /\ wk.pc = "loop"
    /\ loopContinues(wk.iteration, workerMaxIterations(wk.name))
    /\ nCalls < MaxCalls
    /\ \E response \in Responses(ToolNames, nCalls + 1) :
         /\ response.toolCalls # <<>>
         /\ wk' = [wk EXCEPT !.iteration = @ + 1, !.calls = @ + 1,
                      !.totalUsage = accumulate(@, response.usage),
                      !.observed = observe(@, response.usage),
                      !.pending = response.toolCalls,
                      !.pc = "dispatch",
                      !.own = @ \cup {Len(wmessages[wk.name]) + 1}]
         /\ wmessages' = [wmessages EXCEPT
                            ![wk.name] = Append(messagesAfterWindow(@, workerContextWindow(wk.name)),
                                                assistantMessage(response))]
         /\ mgr' = observedByManager(response.usage)
         /\ nRequests' = nRequests + Len(response.toolCalls)
         /\ ev' = [type |-> "response", agent |-> "worker", response |-> response,
                   tools |-> ToolNames,
                   sent |-> applyContextWindow(wmessages[wk.name], workerContextWindow(wk.name))]
    /\ nCalls' = nCalls + 1
    /\ UNCHANGED <<cfg, mgr2, wk2, store, ops, now>>

WorkerCeiling ==
    /\ wk.pc = "loop"
    /\ ~loopContinues(wk.iteration, workerMaxIterations(wk.name))
    /\ \E written \in StoreOutcomes :
         /\ wk' = workerExit(wk, resultAfterStore(workerCeilingResult(wk.totalUsage), written),
                             "ceiling", None)
         /\ ev' = [type |-> "ceiling", agent |-> "worker", written |-> written]
         /\ WorkerStore(written)
    /\ UNCHANGED <<cfg, mgr2, wk2, mgr, wmessages, ops, nCalls, nRequests>>

\* one request of the turn: `await this.executeTool(...)`; a returned text
\* (the implementation's, or the text made from its Error) becomes a tool turn
WorkerToolReturns ==
    /\ wk.pc = "dispatch"
    /\ \E behaviour \in ToolBehaviours :
         LET toolCall == Head(wk.pending)
             outcome == executeTool(wk.name, toolCall.name, behaviour)
         IN /\ ~outcome.thrown
            /\ wmessages' = [wmessages EXCEPT
                               ![wk.name] = Append(@, toolMessage(outcome.value, toolCall))]
            /\ wk' = [wk EXCEPT !.pending = Tail(@),
                         !.pc = afterDispatch(wk.pending),
                         !.seen = @ \cup (IF behaviour.kind = "throw" THEN {"toolError"} ELSE {}),
                         !.own = @ \cup {Len(wmessages[wk.name]) + 1}]
            /\ ev' = [type |-> "toolReturned", toolCall |-> toolCall, behaviour |-> behaviour]
    /\ UNCHANGED <<cfg, mgr2, wk2, mgr, store, ops, nCalls, now, nRequests>>

\* executeTool throws (no implementation): caught by the catch of execute
WorkerToolThrows ==
    /\ wk.pc = "dispatch"
    /\ \E behaviour \in ToolBehaviours, written \in StoreOutcomes :
         LET toolCall == Head(wk.pending)
             outcome == executeTool(wk.name, toolCall.name, behaviour)
         IN /\ outcome.thrown
            /\ wk' = workerExit(wk, resultAfterStore(failedResult(outcome.value, wk.totalUsage), written),
                                "tool", Some(outcome.value))
            /\ ev' = [type |-> "toolThrew", toolCall |-> toolCall, pending |-> wk.pending,
                      written |-> written]
            /\ WorkerStore(written)
    /\ UNCHANGED <<cfg, mgr2, wk2, mgr, wmessages, ops, nCalls, nRequests>>

-----------------------------------------------------------------------------

Next ==
    \/ ExecuteTask
    \/ ManagerChatThrows
    \/ ManagerChatCompletes
    \/ ManagerChatRequests
    \/ ManagerCeiling
    \/ ManagerDispatchUnresolved
    \/ ManagerDelegate
    \/ ManagerWorkerReturns
    \/ CallWorker
    \/ CallWorkerUnknown
    \/ ResetWorkerHistory
    \/ ResetWorkerHistoryUnknown
    \/ ResetAllWorkerHistory
    \/ WorkerChatThrows
    \/ WorkerChatCompletes
    \/ WorkerChatRequests
    \/ WorkerCeiling
    \/ WorkerToolReturns
    \/ WorkerToolThrows

Spec == Init /\ [][Next]_vars

-----------------------------------------------------------------------------
(* InMemoryStorage.queryConversations, applied to stores that hold several    *)
(* conversations: the store is reached through getMemory(), and               *)
(* conversations stored through it with ids of their own are kept side by     *)
(* side.  Their ids are numbered 1, 2, ... in the order of their insertion,   *)
(* which is the order in which the Map is iterated.                           *)

MaxStored == 2

\* the times (createdAt, updatedAt) of the stored conversations
QueryTimes == {<<1, 1>>, <<1, 2>>, <<2, 2>>}

StoredConversations ==
    {[agentType |-> a[1], agentName |-> a[2], live |-> FALSE,
      messages |-> <<[role |-> "system", content |-> <<"system prompt">>]>>,
      createdAt |-> t[1], updatedAt |-> t[2]] :
        a \in {<<"manager", "manager">>, <<"worker", "calc">>, <<"worker", "writer">>},
        t \in QueryTimes}

QueryStores == UNION {[1..n -> StoredConversations] : n \in 0..MaxStored}

QueryOptions ==
    [agentType : {None, Some("worker")},
     agentName : {None, Some("calc")},
     startDate : {None, Some(2)},
     endDate : {None, Some(1)},
     offset : {None, Some(1)},
     limit : {None, Some(0), Some(1), Some(2)}]

\* Array.from(this.conversations.values())
values(conversations) == [i \in 1..Cardinality(DOMAIN conversations) |-> conversations[i]]

\* results.filter(...): keeps[i] tells whether the callback keeps results[i]
filter(results, keeps) ==
    LET F[i \in 0..Len(results)] ==
            IF i = 0 THEN <<>>
            ELSE IF keeps[i] THEN Append(F[i - 1], results[i]) ELSE F[i - 1]
    IN F[Len(results)]

\* results.sort((a, b) => b.updatedAt.getTime() - a.updatedAt.getTime()):
\* the sort is stable, conversations updated at the same time keep their order
sortByUpdatedAt(results) ==
    LET n == Len(results)
        place(i) == Cardinality({j \in 1..n : results[j].updatedAt > results[i].updatedAt})
                    + Cardinality({j \in 1..(i - 1) :
                                     results[j].updatedAt = results[i].updatedAt}) + 1
    IN [p \in 1..n |-> results[CHOOSE i \in 1..n : place(i) = p]]

\* results.slice(start, end) for 0 <= start
slice(results, start, end) ==
    SubSeq(results, start + 1, IF end < Len(results) THEN end ELSE Len(results))

\* InMemoryStorage.queryConversations
queryConversations(conversations, options) ==
    LET all == values(conversations)
        byType == IF options.agentType = None THEN all
                  ELSE filter(all, [i \in 1..Len(all) |->
                                      all[i].agentType = options.agentType[1]])
        byName == IF options.agentName = None THEN byType
                  ELSE filter(byType, [i \in 1..Len(byType) |->
                                         byType[i].agentName = options.agentName[1]])
        byStart == IF options.startDate = None THEN byName
                   ELSE filter(byName, [i \in 1..Len(byName) |->
                                          byName[i].createdAt >= options.startDate[1]])
        byEnd == IF options.endDate = None THEN byStart
                 ELSE filter(byStart, [i \in 1..Len(byStart) |->
                                         byStart[i].createdAt <= options.endDate[1]])
        results == sortByUpdatedAt(byEnd)
        offset == OrDefault(options.offset, 0)
        limit == OrDefault(options.limit, Len(results))
    IN slice(results, offset, offset + limit)

InitQuery ==
    /\ cfg \in {c \in Configurations : DOMAIN c.workers = {"calc", "writer"}}
    /\ mgr = ManagerIdle
    /\ wk = WorkerIdle
    /\ wk2 = WorkerIdle
    /\ mgr2 = ManagerIdle
    /\ wmessages = [w \in DOMAIN cfg.workers |-> <<workerSystemMessage(w)>>]
    /\ store \in QueryStores
    /\ ops = 0
    /\ nCalls = 0
    /\ nRequests = 0
    /\ now = 3
    /\ ev = [type |-> "constructed"]

QueryConversations ==
    /\ \E options \in QueryOptions :
         ev' = [type |-> "queryConversations", options |-> options,
                results |-> queryConversations(store, options)]
    /\ UNCHANGED <<cfg, mgr2, wk2, mgr, wk, wmessages, store, ops, nCalls, now, nRequests>>

NextQuery == QueryConversations

QuerySpec == InitQuery /\ [][NextQuery]_vars

-----------------------------------------------------------------------------
(* Executions near their ceiling.  The defaults of the ceilings are 20 and    *)
(* 25 rounds; the states in which an execution has run that many rounds are   *)
(* drawn directly: the manager after k rounds in each of which its provider   *)
(* requested a name that is no worker, and a worker (called directly, or by   *)
(* the manager in its first round) after k rounds in each of which its        *)
(* provider requested "add" and the tool returned.  Provider calls and        *)
(* requests are counted from the drawn state, the requests of the earlier     *)
(* rounds carry the call number 0.                                            *)

\* the steps of the executions: everything but the calls of the client
Run ==
    \/ ManagerChatThrows
    \/ ManagerChatCompletes
    \/ ManagerChatRequests
    \/ ManagerCeiling
    \/ ManagerDispatchUnresolved
    \/ ManagerDelegate
    \/ ManagerWorkerReturns
    \/ WorkerChatThrows
    \/ WorkerChatCompletes
    \/ WorkerChatRequests
    \/ WorkerCeiling
    \/ WorkerToolReturns
    \/ WorkerToolThrows

\* one worker "calc" implementing "add"; manager and worker each without a
\* configured ceiling or with ceiling 2
CeilingConfigurations ==
    {[memory |-> "in-memory",
      manager |-> [maxIterations |-> m, restrictedWorkers |-> None, contextWindow |-> None],
      workers |-> [w \in {"calc"} |->
                     [maxIterations |-> c, toolImplementations |-> Some({"add"}),
                      contextWindow |-> None]]] : m \in {None, Some(2)}, c \in {None, Some(2)}}

\* the numbers of rounds an execution is drawn at: none, and the last two
\* the loop condition `iteration < this.maxIterations` allows
Rounds(maxIterations) == {0} \cup {k \in 0..maxIterations : k >= maxIterations - 1}

earlierCall(i, name) ==
    [id |-> <<0, i>>, name |-> name, arguments |-> CHOOSE p \in Payloads : TRUE]

earlierResponse(i, name) ==
    [content |-> CHOOSE t \in ResponseTexts : TRUE, toolCalls |-> <<earlierCall(i, name)>>,
     usage |-> None]

\* the manager's messages after k rounds
managerRounds(k) ==
    LET F[i \in 0..k] ==
            IF i = 0
            THEN <<managerSystemMessage, managerUserMessage(CHOOSE t \in Tasks : TRUE)>>
            ELSE F[i - 1] \o <<assistantMessage(earlierResponse(i, "ghost")),
                               toolMessage(unresolvedWorkerText("ghost"),
                                           earlierCall(i, "ghost"))>>
    IN F[k]

\* the messages of worker w after k rounds of its first invocation
workerRounds(w, k) ==
    LET F[i \in 0..k] ==
            IF i = 0
            THEN pushUserMessage(<<workerSystemMessage(w)>>, CHOOSE p \in Payloads : TRUE)
            ELSE F[i - 1] \o <<assistantMessage(earlierResponse(i, "add")),
                               toolMessage(CHOOSE t \in ToolTexts : TRUE,
                                           earlierCall(i, "add"))>>
    IN F[k]

managerAfter(k) ==
    [ManagerIdle EXCEPT !.pc = "loop", !.messages = managerRounds(k), !.iteration = k,
                        !.calls = k, !.seen = IF k = 0 THEN {} ELSE {"unresolved"}]

\* the manager waiting for the worker it delegated to in its first round
managerAwaiting(w) ==
    [ManagerIdle EXCEPT !.pc = "await",
                        !.messages = Append(managerRounds(0),
                                            assistantMessage(earlierResponse(0, w))),
                        !.pending = <<earlierCall(0, w)>>,
                        !.iteration = 1, !.calls = 1]

workerAfter(w, k, caller) ==
    [WorkerIdle EXCEPT !.pc = "loop", !.name = w, !.caller = caller, !.iteration = k,
                       !.calls = k, !.own = 2..(2 * k + 2)]

InitCeiling ==
    /\ cfg \in CeilingConfigurations
    /\ \/ \E k \in Rounds(managerMaxIterations) :
             /\ mgr = managerAfter(k)
             /\ wk = WorkerIdle
             /\ wk2 = WorkerIdle
             /\ mgr2 = ManagerIdle
             /\ wmessages = [w \in DOMAIN cfg.workers |-> <<workerSystemMessage(w)>>]
       \/ \E k \in Rounds(workerMaxIterations("calc")), caller \in {"direct", "manager"} :
             /\ mgr = IF caller = "manager" THEN managerAwaiting("calc") ELSE ManagerIdle
             /\ wk = workerAfter("calc", k, caller)
             /\ wk2 = WorkerIdle
             /\ mgr2 = ManagerIdle
             /\ wmessages = [w \in DOMAIN cfg.workers |-> workerRounds(w, k)]
    /\ store = [k \in {} |-> 0]
    /\ ops = 1
    /\ nCalls = 0
    /\ nRequests = 0
    /\ now = 0
    /\ ev = [type |-> "resumed"]

CeilingSpec == InitCeiling /\ [][Run]_vars

\* an async function goes on once the call it awaits has returned or thrown
LiveSpec == InitCeiling /\ [][Run]_vars /\ WF_vars(Run)

-----------------------------------------------------------------------------
(* Overlapping calls of one worker.  callWorker is an async method: a client  *)
(* may call it again while an earlier call is suspended at an await.  Both    *)
(* calls run WorkerAgent.execute on the same object, the one that goes on is  *)
(* held in wk, the suspended one in wk2.                                      *)

OverlapConfigurations ==
    {c \in Configurations :
        /\ c.memory = "in-memory"
        /\ c.manager = [maxIterations |-> None, restrictedWorkers |-> None,
                        contextWindow |-> None]
        /\ c.workers = [w \in {"calc"} |->
                          [maxIterations |-> Some(2), toolImplementations |-> Some({"add"}),
                           contextWindow |-> None]]}

InitOverlap == Init /\ cfg \in OverlapConfigurations

\* the call is at `await this.provider.chat(...)` or `await this.executeTool(...)`
Suspended(frame) ==
    \/ frame.pc = "dispatch"
    \/ frame.pc = "loop" /\ loopContinues(frame.iteration, workerMaxIterations(frame.name))

\* OfficeLLM.callWorker while an earlier call of the worker is suspended
CallWorkerOverlapping ==
    /\ Suspended(wk)
    /\ wk.caller = "direct"
    /\ wk2.pc = "idle"
    /\ ops < MaxOps
    /\ \E params \in Payloads :
         /\ workerStart(wk.name, params, "direct")
         /\ ev' = [type |-> "callWorker", worker |-> wk.name, params |-> params]
    /\ wk2' = wk
    /\ ops' = ops + 1
    /\ UNCHANGED <<cfg, mgr, mgr2, store, nCalls, now, nRequests>>

\* the call that was suspended goes on, the other one is suspended at its
\* await or has returned
Switch ==
    /\ Suspended(wk2)
    /\ Suspended(wk) \/ wk.pc = "returned"
    /\ wk' = wk2
    /\ wk2' = wk
    /\ ev' = [type |-> "switch"]
    /\ UNCHANGED <<cfg, mgr, mgr2, wmessages, store, ops, nCalls, now, nRequests>>

NextOverlap ==
    \/ CallWorker
    \/ CallWorkerOverlapping
    \/ Switch
    \/ WorkerChatThrows
    \/ WorkerChatCompletes
    \/ WorkerChatRequests
    \/ WorkerCeiling
    \/ WorkerToolReturns
    \/ WorkerToolThrows

OverlapSpec == InitOverlap /\ [][NextOverlap]_vars

-----------------------------------------------------------------------------
(* The operations of InMemoryStorage, called by a client on the store it got  *)
(* from getMemory(), on stores with a small maxConversations.  A conversation *)
(* is built at the call, so its createdAt and updatedAt are the time of the   *)
(* call; the clock advances with every operation.                             *)

\* the number of operations made on the store
MaxClock == 4

\* `maxConversations` of the memory configuration: unset, 1 and 2
StoreLimits == {None, Some(1), Some(2)}

StoreConfigurations ==
    {[memory |-> "in-memory", maxConversations |-> m,
      manager |-> [maxIterations |-> None, restrictedWorkers |-> None,
                   contextWindow |-> None],
      workers |-> [w \in {"calc"} |->
                     [maxIterations |-> Some(1), toolImplementations |-> Some({"add"}),
                      contextWindow |-> None]]] : m \in StoreLimits}

\* the ids of the conversations a client stores
StoreIds == {"a", "b", ""}

ClientTurns ==
    {<<[role |-> "user", content |-> <<"hello">>]>>,
     <<[role |-> "user", content |-> <<"hello">>],
       [role |-> "assistant", content |-> <<"answer">>]>>}

\* a StoredConversation with an id of its own
clientConversation(id, messages, time) ==
    [id |-> id, agentType |-> "worker", agentName |-> "calc", live |-> FALSE,
     messages |-> messages, createdAt |-> time, updatedAt |-> time]

\* the conversations handed to storeConversation at the time of the call:
\* those of a client, and the one ManagerAgent.storeConversation builds
StoreInputs(time) ==
    {clientConversation(id, m, time) : id \in StoreIds, m \in ClientTurns}
    \cup {managerConversation(<<managerSystemMessage>>, time)}

InitStore ==
    /\ cfg \in StoreConfigurations
    /\ mgr = ManagerIdle
    /\ wk = WorkerIdle
    /\ wk2 = WorkerIdle
    /\ mgr2 = ManagerIdle
    /\ wmessages = [w \in DOMAIN cfg.workers |-> <<workerSystemMessage(w)>>]
    /\ store = [k \in {} |-> 0]
    /\ ops = 0
    /\ nCalls = 0
    /\ nRequests = 0
    /\ now = 0
    /\ ev = [type |-> "constructed"]

StoreConversation ==
    /\ now < MaxClock
    /\ \E conversation \in StoreInputs(now) :
         /\ store' = storeConversation(store, conversation)
         /\ ev' = [type |-> "storeConversation", conversation |-> conversation]
    /\ now' = now + 1
    /\ UNCHANGED <<cfg, mgr, wk, wk2, mgr2, wmessages, ops, nCalls, nRequests>>

UpdateConversation ==
    /\ now < MaxClock
    /\ \E id \in StoreIds \cap DOMAIN store, messages \in ClientTurns :
         /\ store' = updateConversation(store, id, messages, now)
         /\ ev' = [type |-> "updateConversation", id |-> id, messages |-> messages]
    /\ now' = now + 1
    /\ UNCHANGED <<cfg, mgr, wk, wk2, mgr2, wmessages, ops, nCalls, nRequests>>

\* updateConversation with an id the Map does not hold: the Error is thrown
\* before anything is changed
UpdateConversationUnknown ==
    /\ now < MaxClock
    /\ \E id \in StoreIds \ DOMAIN store, messages \in ClientTurns :
         ev' = [type |-> "updateConversationThrew", id |-> id, messages |-> messages,
                error |-> updateConversationError(id)]
    /\ now' = now + 1
    /\ UNCHANGED <<cfg, mgr, wk, wk2, mgr2, wmessages, store, ops, nCalls, nRequests>>

DeleteConversation ==
    /\ now < MaxClock
    /\ \E id \in StoreIds :
         /\ store' = deleteConversation(store, id)
         /\ ev' = [type |-> "deleteConversation", id |-> id]
    /\ now' = now + 1
    /\ UNCHANGED <<cfg, mgr, wk, wk2, mgr2, wmessages, ops, nCalls, nRequests>>

Clear ==
    /\ now < MaxClock
    /\ store' = clear(store)
    /\ ev' = [type |-> "clear"]
    /\ now' = now + 1
    /\ UNCHANGED <<cfg, mgr, wk, wk2, mgr2, wmessages, ops, nCalls, nRequests>>

NextStore ==
    \/ StoreConversation
    \/ UpdateConversation
    \/ UpdateConversationUnknown
    \/ DeleteConversation
    \/ Clear

StoreSpec == InitStore /\ [][NextStore]_vars

-----------------------------------------------------------------------------
(* Overlapping tasks.  executeTask is an async method: a client may call it   *)
(* again while an earlier call is suspended at an await.  Each call has its   *)
(* own locals (messages, iteration, totalUsage) and awaits its own            *)
(* worker.execute call; the call that goes on is held in mgr and wk, the      *)
(* suspended one in mgr2 and wk2.  The workers and the store are the ones of  *)
(* the instance.                                                              *)

\* one worker "calc" that the manager may delegate to, the manager with
\* ceiling 2: manager and worker with each configured context window, and
\* without a configured one
TaskOverlapConfigurations ==
    {c \in Configurations :
        /\ c.memory = "in-memory"
        /\ c.manager.maxIterations = Some(2)
        /\ c.manager.restrictedWorkers = None}

InitTaskOverlap == Init /\ cfg \in TaskOverlapConfigurations

\* the task a client hands to the overlapping call
OverlappingTasks == {[title |-> "U", description |-> "D", priority |-> Some("high")]}

\* the executeTask call is at `await this.provider.chat(...)`, or at
\* `await worker.execute(...)` with the worker's call at an await of its own
TaskSuspended(frame, worker) ==
    \/ frame.pc = "loop" /\ loopContinues(frame.iteration, managerMaxIterations)
    \/ frame.pc = "await" /\ Suspended(worker)

\* the turns kept in a field of the manager, as the worker keeps its own:
\* the overlapping call pushing its user turn after the turns of the other
ExecuteTaskOverlapping_sharesTurns ==
    /\ TaskSuspended(mgr, wk)
    /\ mgr2.pc = "idle"
    /\ wk2.pc = "idle"
    /\ ops < MaxOps
    /\ \E task \in OverlappingTasks :
         /\ mgr' = [ManagerIdle EXCEPT !.pc = "loop",
                       !.messages = Append(mgr.messages, managerUserMessage(task))]
         /\ ev' = [type |-> "executeTask", task |-> task]
    /\ mgr2' = mgr
    /\ wk2' = wk
    /\ wk' = WorkerIdle
    /\ ops' = ops + 1
    /\ UNCHANGED <<cfg, wmessages, store, nCalls, now, nRequests>>

\* OfficeLLM.executeTask while an earlier call of it is suspended
ExecuteTaskOverlapping ==
    /\ TaskSuspended(mgr, wk)
    /\ mgr2.pc = "idle"
    /\ wk2.pc = "idle"
    /\ ops < MaxOps
    /\ \E task \in OverlappingTasks :
         /\ mgr' = [ManagerIdle EXCEPT !.pc = "loop",
                       !.messages = <<managerSystemMessage, managerUserMessage(task)>>]
         /\ ev' = [type |-> "executeTask", task |-> task]
    /\ mgr2' = mgr
    /\ wk2' = wk
    /\ wk' = WorkerIdle
    /\ ops' = ops + 1
    /\ UNCHANGED <<cfg, wmessages, store, nCalls, now, nRequests>>

\* the executeTask call that was suspended goes on, the other one is
\* suspended at its await or has returned
SwitchTask ==
    /\ TaskSuspended(mgr2, wk2)
    /\ TaskSuspended(mgr, wk) \/ mgr.pc = "returned"
    /\ mgr' = mgr2
    /\ mgr2' = mgr
    /\ wk' = wk2
    /\ wk2' = wk
    /\ ev' = [type |-> "switchTask"]
    /\ UNCHANGED <<cfg, wmessages, store, ops, nCalls, now, nRequests>>

NextTaskOverlap ==
    \/ ExecuteTask
    \/ ExecuteTaskOverlapping
    \/ SwitchTask
    \/ Run

TaskOverlapSpec == InitTaskOverlap /\ [][NextTaskOverlap]_vars

-----------------------------------------------------------------------------
(* Vocabulary of the properties *)

Contains(text, fragment) == \E i \in 1..Len(text) : text[i] = fragment

Last(seq) == seq[Len(seq)]

\* the name is in the manager's restrictedWorkers list
IsRestricted(name) ==
    IF cfg.manager.restrictedWorkers = None THEN FALSE
    ELSE name \in cfg.manager.restrictedWorkers[1]

\* the name has an entry in the worker's toolImplementations table
IsImplemented(w, toolName) ==
    IF cfg.workers[w].toolImplementations = None THEN FALSE
    ELSE toolName \in cfg.workers[w].toolImplementations[1]

WorkerActive == wk.pc # "idle"

-----------------------------------------------------------------------------
(* C1 *)

\* C1: the number of provider calls made by the manager's loop, and by a
\* worker's loop, never exceeds the ceiling configured for that agent, for
\* every configured ceiling c >= 0.
C1_IterationsWithinConfiguredCeiling ==
    /\ cfg.manager.maxIterations # None
          => mgr.calls <= cfg.manager.maxIterations[1]
    /\ (WorkerActive /\ cfg.workers[wk.name].maxIterations # None)
          => wk.calls <= cfg.workers[wk.name].maxIterations[1]

-----------------------------------------------------------------------------
(* C2 *)

\* C2: when the request at the head of a worker's turn names a tool without
\* an entry in toolImplementations, the execution aborts in that step: the
\* result has success = false and an error text containing the tool's name,
\* no provider call is made, no tool turn is appended (so neither this nor a
\* remaining request of the turn is dispatched), and the aborted execution
\* takes no further step: its frame stays as it is until the result is
\* consumed by the manager or the worker is invoked anew.
C2_AbortStep ==
    (wk.pc = "dispatch" /\ ~IsImplemented(wk.name, Head(wk.pending).name))
        => /\ wk'.pc = "returned"
           /\ wk'.result # None
           /\ wk'.result[1].success = FALSE
           /\ Contains(wk'.result[1].error, Head(wk.pending).name)
           /\ wk'.calls = wk.calls
           /\ nCalls' = nCalls
           /\ wmessages' = wmessages

C2_AbortedStays ==
    (wk.pc = "returned" /\ wk.exit = "tool")
        => \/ wk' = wk
           \/ ev'.type \in {"callWorker", "delegated", "workerReturned"}

-----------------------------------------------------------------------------
(* C3 *)

\* C3: when the request at the head of a worker's turn names a tool that has
\* an implementation, the dispatch is never fatal, whether the implementation
\* returns or raises: exactly one tool turn with the request's correlation id
\* is appended, the remaining requests of the turn stay to be dispatched, and
\* after the last one the loop goes on to its next round; when the
\* implementation raised, the tool turn reads
\* 'Error executing tool "<name>": <message>'.
C3_DispatchStep ==
    (wk.pc = "dispatch" /\ IsImplemented(wk.name, Head(wk.pending).name))
        => LET toolCall == Head(wk.pending)
               turn == Last(wmessages'[wk.name])
           IN /\ Len(wmessages'[wk.name]) = Len(wmessages[wk.name]) + 1
              /\ SubSeq(wmessages'[wk.name], 1, Len(wmessages[wk.name])) = wmessages[wk.name]
              /\ turn.role = "tool"
              /\ turn.toolCallId = toolCall.id
              /\ ev'.type = "toolReturned"
              /\ ev'.behaviour.kind = "throw"
                    => turn.content = <<"Error executing tool \"", toolCall.name, "\": ">>
                                         \o ev'.behaviour.message
              /\ ev'.behaviour.kind = "return" => turn.content = ev'.behaviour.text
              /\ wk'.pending = Tail(wk.pending)
              /\ wk'.pc = (IF Tail(wk.pending) = <<>> THEN "loop" ELSE "dispatch")
              /\ wk'.result = None
              /\ wk'.iteration = wk.iteration

C3_ToolFailureIsNotFatal == [][C3_DispatchStep]_vars

\* the first tool of a turn raised, the second was dispatched, and the worker
\* is about to make the provider call of its next round
C3_Witness ==
    /\ wk.pc = "loop"
    /\ wk.calls = 1
    /\ wk.iteration < workerMaxIterations(wk.name)
    /\ Len(wmessages[wk.name]) >= 5
    /\ LET n == Len(wmessages[wk.name])
           first == wmessages[wk.name][n - 1]
           second == wmessages[wk.name][n]
       IN /\ first.role = "tool"
          /\ first.content = <<"Error executing tool \"", "add", "\": ", "tool failed">>
          /\ second.role = "tool"
          /\ second.toolCallId # first.toolCallId

-----------------------------------------------------------------------------
(* C4 *)

\* the request names no registered worker, or a restricted one
Unavailable(name) == name \notin DOMAIN cfg.workers \/ IsRestricted(name)

\* C4: when the request at the head of the manager's turn names no registered
\* worker or a restricted one, the manager appends one tool turn reading
\* "Error: Worker '<name>' not found or restricted" with the request's
\* correlation id and goes on (with the next request, or with the next round
\* of the loop) without making a result; and a manager execution that met
\* such a request and whose provider calls did not fail returns success.
C4_UnavailableStep ==
    (mgr.pc = "dispatch" /\ Unavailable(Head(mgr.pending).name))
        => LET toolCall == Head(mgr.pending)
           IN /\ mgr'.messages =
                    Append(mgr.messages,
                           [role |-> "tool",
                            content |-> <<"Error: Worker '", toolCall.name,
                                          "' not found or restricted">>,
                            toolCallId |-> toolCall.id])
              /\ mgr'.pending = Tail(mgr.pending)
              /\ mgr'.pc = (IF Tail(mgr.pending) = <<>> THEN "loop" ELSE "dispatch")
              /\ mgr'.result = None
              /\ mgr'.iteration = mgr.iteration
              /\ wk' = wk
              /\ wmessages' = wmessages

C4_UnavailableAloneNeverFails ==
    (mgr.pc = "returned" /\ "unresolved" \in mgr.seen /\ mgr.exit # "provider")
        => mgr.result[1].success

C4_UnavailableWorkerIsNotFatal ==
    [](C4_UnavailableAloneNeverFails) /\ [][C4_UnavailableStep]_vars

\* Scenario C: "calc" is restricted and requested in round 1; the tool turn
\* names it and the manager has made the provider call of round 2
C4_Witness ==
    /\ IsRestricted("calc")
    /\ mgr.calls = 2
    /\ mgr.iteration = 2
    /\ ev.type = "response"
    /\ ev.agent = "manager"
    /\ Len(mgr.messages) >= 4
    /\ mgr.messages[4].role = "tool"
    /\ mgr.messages[4].content = <<"Error: Worker '", "calc", "' not found or restricted">>

-----------------------------------------------------------------------------
(* C5 *)

\* C5: a worker in restrictedWorkers is never executed on behalf of the
\* manager, and is never among the tool definitions passed to the manager's
\* provider.
C5_RestrictedWorkerNeverDelegated ==
    /\ (WorkerActive /\ wk.caller = "manager") => ~IsRestricted(wk.name)
    /\ (ev.type \in {"response", "providerThrew"} /\ ev.agent = "manager")
          => \A name \in ev.tools : ~IsRestricted(name)
    /\ ev.type = "delegated" => ~IsRestricted(ev.toolCall.name)

\* the provider asked for the unrestricted worker and then for the restricted
\* one; the first was run, the second is refused
C5_Witness ==
    /\ ev.type = "unresolved"
    /\ ev.toolCall.name \in DOMAIN cfg.workers
    /\ IsRestricted(ev.toolCall.name)
    /\ ev.toolCall.id[2] = 2
    /\ Len(mgr.messages) = 5
    /\ mgr.messages[4].role = "tool"
    /\ mgr.messages[4].content = <<"answer">>

-----------------------------------------------------------------------------
(* C6 *)

\* C6: when a delegated worker has returned, the manager appends a tool turn
\* with the request's correlation id whose content is the worker's content
\* if the worker succeeded and "Error: " followed by the worker's error text
\* if it failed, and goes on without making a result; a manager execution in
\* which a delegated worker failed and whose own provider calls did not fail
\* returns success.
C6_WorkerReturnStep ==
    (mgr.pc = "await" /\ wk.pc = "returned")
        => LET toolCall == Head(mgr.pending)
               workerResult == wk.result[1]
           IN /\ mgr'.messages =
                    Append(mgr.messages,
                           [role |-> "tool",
                            content |-> IF workerResult.success
                                        THEN workerResult.content
                                        ELSE <<"Error: ">> \o workerResult.error,
                            toolCallId |-> toolCall.id])
              /\ mgr'.pending = Tail(mgr.pending)
              /\ mgr'.pc = (IF Tail(mgr.pending) = <<>> THEN "loop" ELSE "dispatch")
              /\ mgr'.result = None

C6_WorkerFailureAloneNeverFails ==
    (mgr.pc = "returned" /\ "workerFailed" \in mgr.seen /\ mgr.exit # "provider")
        => /\ mgr.result[1].success
           /\ "error" \notin DOMAIN mgr.result[1]

C6_WorkerFailureIsNotFatal ==
    [](C6_WorkerFailureAloneNeverFails) /\ [][C6_WorkerReturnStep]_vars

\* a delegated worker failed for a missing implementation, the manager was
\* told so in a tool turn, made a further provider call and returned success
C6_Witness ==
    /\ mgr.pc = "returned"
    /\ mgr.result[1].success
    /\ mgr.calls = 2
    /\ mgr.messages[4].role = "tool"
    /\ mgr.messages[4].content \in
          {<<"Error: ">> \o missingImplementationText(t) : t \in ToolNames}

-----------------------------------------------------------------------------
(* C7 *)

\* C7: on every exit path the three usage counters of the returned result
\* equal the sums of the counters over all provider calls made during the
\* execution, the calls of delegated workers included.
C7_UsageIsExactSum ==
    /\ mgr.pc = "returned" => mgr.result[1].usage = mgr.observed
    /\ wk.pc = "returned" => wk.result[1].usage = wk.observed

\* a manager call, a delegated worker whose provider answered once and which
\* then failed, a second manager call: three calls are summed
C7_Witness ==
    /\ mgr.pc = "returned"
    /\ "workerFailed" \in mgr.seen
    /\ mgr.calls = 2
    /\ mgr.result[1].usage = [promptTokens |-> 3, completionTokens |-> 6, totalTokens |-> 9]

-----------------------------------------------------------------------------
(* C8 *)

\* the store holds the conversation of the agent with these turns
Persisted(conversations, agentType, agentName, live, turns) ==
    \E k \in DOMAIN conversations :
        /\ conversations[k].agentType = agentType
        /\ conversations[k].agentName = agentName
        /\ conversations[k].live = live
        /\ live \/ conversations[k].messages = turns

\* C8: when a provider call raises in the manager's or in a worker's loop,
\* the execution ends in that step with success = false, empty content, the
\* failure's message as error and the usage accumulated before the call;
\* no turn is appended, the conversation is written to the store, and the
\* ended execution takes no further step.
C8_ManagerProviderFailure ==
    (ev'.type = "providerThrew" /\ ev'.agent = "manager")
        => /\ mgr.pc = "loop"
           /\ mgr'.pc = "returned"
           /\ mgr'.result = Some([success |-> FALSE, content |-> <<>>,
                                  error |-> ev'.message, usage |-> mgr.totalUsage])
           /\ mgr.totalUsage = mgr.observed
           /\ mgr'.messages = mgr.messages
           /\ mgr'.stores = mgr.stores + 1
           /\ ev'.written => Persisted(store', "manager", "manager", FALSE, mgr.messages)
           /\ wk' = wk
           /\ wmessages' = wmessages

C8_WorkerProviderFailure ==
    (ev'.type = "providerThrew" /\ ev'.agent = "worker")
        => /\ wk.pc = "loop"
           /\ wk'.pc = "returned"
           /\ wk'.result = Some([success |-> FALSE, content |-> <<>>,
                                 error |-> ev'.message, usage |-> wk.totalUsage])
           /\ wk.totalUsage = wk.observed
           /\ wmessages' = wmessages
           /\ wk'.stores = wk.stores + 1
           /\ ev'.written => Persisted(store', "worker", wk.name, TRUE, wmessages[wk.name])
           /\ mgr' = mgr

C8_FailedStays ==
    /\ (mgr.pc = "returned" /\ mgr.exit = "provider")
          => (mgr' = mgr \/ ev'.type = "executeTask")
    /\ (wk.pc = "returned" /\ wk.exit = "provider")
          => (wk' = wk \/ ev'.type \in {"callWorker", "delegated", "workerReturned"})

C8_ProviderFailureEndsExecution ==
    [][C8_ManagerProviderFailure /\ C8_WorkerProviderFailure /\ C8_FailedStays]_vars

\* the manager's second provider call raised after usage had been accumulated
C8_Witness ==
    /\ ev.type = "providerThrew"
    /\ ev.agent = "manager"
    /\ mgr.calls = 2
    /\ mgr.result[1].usage.totalTokens = 3
    /\ mgr.result[1].error = <<"provider down">>

-----------------------------------------------------------------------------
(* C9 *)

\* C9: a returned result has success = false exactly when the agent's own
\* loop was left by a fatal failure (a provider call that raised, or for a
\* worker a missing tool implementation), and then error is that failure's
\* message; otherwise (the loop was left on a response without requests or
\* on the ceiling, whatever tool failures, unavailable workers or failed
\* delegated workers it met) success is true and there is no error.
Classified(frame) ==
    frame.pc = "returned"
        => LET result == frame.result[1]
           IN /\ result.success = (frame.exit \notin {"provider", "tool"})
              /\ (frame.exit \in {"provider", "tool"}) = (frame.fault # None)
              /\ frame.fault # None
                    => /\ "error" \in DOMAIN result
                       /\ result.error = frame.fault[1]
              /\ frame.fault = None => "error" \notin DOMAIN result

C9_SuccessFlagClassifiesFailures ==
    /\ Classified(mgr)
    /\ Classified(wk)
    /\ mgr.exit # "tool"
    /\ mgr.pc = "returned" => mgr.exit \in {"completed", "ceiling", "provider"}
    /\ wk.pc = "returned" => wk.exit \in {"completed", "ceiling", "provider", "tool"}

\* a manager that met an unavailable worker and a failed delegated worker
\* and stopped at its ceiling returns success without error
C9_Witness ==
    /\ mgr.pc = "returned"
    /\ mgr.exit = "ceiling"
    /\ mgr.seen = {"unresolved", "workerFailed"}
    /\ mgr.result[1].success
    /\ "error" \notin DOMAIN mgr.result[1]

-----------------------------------------------------------------------------
(* C10 *)

\* the ceiling of an agent: this.maxIterations
CeilingOf(configured, default) ==
    IF configured = None THEN default
    ELSE IF configured[1] = 0 THEN default ELSE configured[1]

ManagerCeilingValue == CeilingOf(cfg.manager.maxIterations, 20)
WorkerCeilingValue == CeilingOf(cfg.workers[wk.name].maxIterations, 25)

\* C10: an execution of an agent with ceiling c in which each of the first c
\* provider responses carried a request and nothing fatal happened makes no
\* further provider call and returns success = true, the fixed message, no
\* error and the accumulated usage; and this exit is taken after exactly c
\* rounds, never earlier.
C10_AtCeiling ==
    /\ (mgr.pc = "loop" /\ mgr.calls = ManagerCeilingValue)
          => /\ mgr'.pc = "returned"
             /\ mgr'.calls = mgr.calls
             /\ nCalls' = nCalls
             /\ mgr'.result = Some([success |-> TRUE,
                   content |-> <<"Task execution stopped: Maximum iterations reached. Partial results may be available.">>,
                   usage |-> mgr.observed])
    /\ (wk.pc = "loop" /\ wk.calls = WorkerCeilingValue)
          => /\ wk'.pc = "returned"
             /\ wk'.calls = wk.calls
             /\ nCalls' = nCalls
             /\ wk'.result = Some([success |-> TRUE,
                   content |-> <<"Worker execution stopped: Maximum iterations reached. Partial results may be available.">>,
                   usage |-> wk.observed])

C10_OnlyAtCeiling ==
    /\ (mgr.pc = "returned" /\ mgr.exit = "ceiling")
          => mgr.calls = ManagerCeilingValue /\ mgr.iteration = ManagerCeilingValue
    /\ (wk.pc = "returned" /\ wk.exit = "ceiling")
          => wk.calls = WorkerCeilingValue /\ wk.iteration = WorkerCeilingValue

C10_CeilingExhaustion == [](C10_OnlyAtCeiling) /\ [][C10_AtCeiling]_vars

\* a manager with ceiling 2 whose two responses carried requests
C10_Witness ==
    /\ mgr.pc = "returned"
    /\ mgr.exit = "ceiling"
    /\ mgr.calls = 2
    /\ cfg.manager.maxIterations = Some(2)
    /\ mgr.result[1].content = ManagerMaxIterationsText
    /\ mgr.result[1].usage.totalTokens = 6

-----------------------------------------------------------------------------
(* C11 *)

HasToolTurn(turns) == \E i \in 1..Len(turns) : turns[i].role = "tool"

\* C11: when the first provider response of an execution (of the manager or
\* of a worker) carries no invocation request, the execution ends in that
\* step after one iteration and one provider call, without any tool or
\* worker dispatch, with success = true, no error and the response's text as
\* content; the ended execution takes no further step.
C11_ManagerFirstResponse ==
    (mgr.pc = "loop" /\ mgr.calls = 0 /\ ev'.type = "response"
        /\ ev'.agent = "manager" /\ ev'.response.toolCalls = <<>>)
        => /\ mgr'.pc = "returned"
           /\ mgr'.iteration = 1
           /\ mgr'.calls = 1
           /\ nCalls' = nCalls + 1
           /\ mgr'.result[1].success
           /\ mgr'.result[1].content = ev'.response.content
           /\ "error" \notin DOMAIN mgr'.result[1]
           /\ ~HasToolTurn(mgr'.messages)
           /\ mgr'.pending = <<>>
           /\ wk' = wk
           /\ wmessages' = wmessages

C11_WorkerFirstResponse ==
    (wk.pc = "loop" /\ wk.calls = 0 /\ ev'.type = "response"
        /\ ev'.agent = "worker" /\ ev'.response.toolCalls = <<>>)
        => /\ wk'.pc = "returned"
           /\ wk'.iteration = 1
           /\ wk'.calls = 1
           /\ nCalls' = nCalls + 1
           /\ wk'.result[1].success
           /\ wk'.result[1].content = ev'.response.content
           /\ "error" \notin DOMAIN wk'.result[1]
           /\ Len(wmessages'[wk.name]) = Len(wmessages[wk.name]) + 1
           /\ Last(wmessages'[wk.name]).role = "assistant"
           /\ wk'.pending = <<>>

C11_CompletedStays ==
    /\ (mgr.pc = "returned" /\ mgr.exit = "completed")
          => (mgr' = mgr \/ ev'.type = "executeTask")
    /\ (wk.pc = "returned" /\ wk.exit = "completed")
          => (wk' = wk \/ ev'.type \in {"callWorker", "delegated", "workerReturned"})

C11_FirstResponseWithoutRequestsEnds ==
    [][C11_ManagerFirstResponse /\ C11_WorkerFirstResponse /\ C11_CompletedStays]_vars

\* a directly invoked worker whose first response carried no request
C11_Witness ==
    /\ ev.type = "response"
    /\ ev.agent = "worker"
    /\ ev.response.toolCalls = <<>>
    /\ wk.caller = "direct"
    /\ wk.pc = "returned"
    /\ wk.calls = 1
    /\ wk.iteration = 1
    /\ wk.result[1] = [success |-> TRUE, content |-> <<"answer">>,
                       usage |-> [promptTokens |-> 1, completionTokens |-> 2, totalTokens |-> 3]]

-----------------------------------------------------------------------------
(* C12 *)

\* C12: when an execution of the manager or of a worker ends on a response
\* without invocation requests and its conversation is written, the turns
\* of the written conversation end with the assistant turn holding that
\* response's text.
C12_FinalAssistantTurnPersisted ==
    (ev.type = "response" /\ ev.response.toolCalls = <<>> /\ ev.written)
        => /\ "undefined" \in DOMAIN store
           /\ LET turns == storedMessages(store["undefined"])
              IN /\ Len(turns) >= 1
                 /\ Last(turns).role = "assistant"
                 /\ Last(turns).content = ev.response.content

-----------------------------------------------------------------------------
(* C13 *)

\* the index of the last assistant turn of the sequence (0 when there is none)
LastAssistant(turns) ==
    IF \E i \in 1..Len(turns) : turns[i].role = "assistant"
    THEN CHOOSE i \in 1..Len(turns) :
            /\ turns[i].role = "assistant"
            /\ \A j \in (i + 1)..Len(turns) : turns[j].role # "assistant"
    ELSE 0

\* the sequence ends with an assistant turn carrying requests, followed by
\* one tool turn for each request already dispatched, in request order and
\* with the request's correlation id; pending are the requests still to do
RoundInOrder(turns, pending) ==
    LET a == LastAssistant(turns)
    IN /\ a > 0
       /\ "toolCalls" \in DOMAIN turns[a]
       /\ LET requests == turns[a].toolCalls
              done == Len(turns) - a
          IN /\ Len(requests) >= 1
             /\ done + Len(pending) = Len(requests)
             /\ pending = SubSeq(requests, done + 1, Len(requests))
             /\ \A i \in 1..done :
                   /\ turns[a + i].role = "tool"
                   /\ turns[a + i].toolCallId = requests[i].id

\* C13: within an execution the turns are appended in causal order: a
\* response with k >= 1 requests appends the assistant turn with its
\* requests first, then one tool turn per request, in request order, each
\* with that request's correlation id; a request is dispatched only when it
\* is the first one not yet answered (the previous dispatch has returned),
\* and the next provider call of the loop is made only after all k tool
\* turns are appended.
C13_TurnsInOrder ==
    /\ mgr.pc \in {"dispatch", "await"}
          => RoundInOrder(mgr.messages, mgr.pending) /\ mgr.pending # <<>>
    /\ (mgr.pc = "loop" /\ mgr.calls >= 1) => RoundInOrder(mgr.messages, <<>>)
    /\ wk.pc = "dispatch"
          => RoundInOrder(wmessages[wk.name], wk.pending) /\ wk.pending # <<>>
    /\ (wk.pc = "loop" /\ wk.calls >= 1) => RoundInOrder(wmessages[wk.name], <<>>)
    /\ mgr.pc = "await" <=> (WorkerActive /\ wk.caller = "manager")

C13_Steps ==
    /\ (ev'.type = "response" /\ ev'.agent = "manager" /\ ev'.response.toolCalls # <<>>)
          => /\ mgr'.messages =
                   Append(mgr.messages,
                          [role |-> "assistant", content |-> ev'.response.content,
                           toolCalls |-> ev'.response.toolCalls])
             /\ mgr'.pending = ev'.response.toolCalls
             /\ mgr'.pc = "dispatch"
    /\ (ev'.type = "response" /\ ev'.agent = "worker" /\ ev'.response.toolCalls # <<>>)
          => /\ wmessages'[wk.name] =
                   Append(wmessages[wk.name],
                          [role |-> "assistant", content |-> ev'.response.content,
                           toolCalls |-> ev'.response.toolCalls])
             /\ wk'.pending = ev'.response.toolCalls
             /\ wk'.pc = "dispatch"
    /\ ev'.type \in {"delegated", "unresolved"}
          => /\ mgr.pc = "dispatch"
             /\ ev'.toolCall = Head(mgr.pending)
             /\ wk.pc \in {"idle", "returned"}
    /\ ev'.type = "workerReturned"
          => mgr.pc = "await" /\ ev'.toolCall = Head(mgr.pending)
    /\ ev'.type \in {"toolReturned", "toolThrew"}
          => wk.pc = "dispatch" /\ ev'.toolCall = Head(wk.pending)
    /\ mgr.pc \in {"dispatch", "await"} => mgr'.calls = mgr.calls
    /\ wk.pc = "dispatch" => (wk'.calls = wk.calls /\ nCalls' = nCalls)
    /\ (ev'.type \in {"response", "providerThrew"} /\ ev'.agent = "manager")
          => mgr.pc = "loop"
    /\ (ev'.type \in {"response", "providerThrew"} /\ ev'.agent = "worker")
          => wk.pc = "loop"

C13_StrictCausalOrder == [](C13_TurnsInOrder) /\ [][C13_Steps]_vars

\* the manager's first response carried two requests: the first was
\* delegated to a worker that answered, the second as well, and the manager
\* is back at the top of its loop with the two tool turns in request order
C13_Witness ==
    /\ mgr.pc = "loop"
    /\ mgr.calls = 1
    /\ Len(mgr.messages) = 5
    /\ Len(mgr.messages[3].toolCalls) = 2
    /\ mgr.messages[4] = [role |-> "tool", content |-> <<"answer">>, toolCallId |-> <<1, 1>>]
    /\ mgr.messages[5].role = "tool"
    /\ mgr.messages[5].toolCallId = <<1, 2>>
    /\ ev.type = "workerReturned"

-----------------------------------------------------------------------------
(* C14 *)

ManagerExits == mgr.pc # "returned" /\ mgr'.pc = "returned"
WorkerExits == wk.pc # "returned" /\ wk'.pc = "returned"

\* no conversation is added to or replaced in the store by the step
NoWrite ==
    /\ DOMAIN store' = DOMAIN store
    /\ \A k \in DOMAIN store :
          /\ store'[k].updatedAt = store[k].updatedAt
          /\ store'[k].agentType = store[k].agentType
          /\ store'[k].agentName = store[k].agentName

\* C14: every execution of the manager or of a worker writes its
\* conversation to the store once, in the step in which its loop is left (on
\* a response without requests, on the ceiling or on a fatal error), and no
\* other step of an execution writes to the store.
C14_WriteAtExit ==
    /\ ManagerExits
          => /\ mgr.stores = 0
             /\ mgr'.stores = 1
             /\ mgr'.exit \in {"completed", "ceiling", "provider"}
             /\ ev'.written
                   => /\ Persisted(store', "manager", "manager", FALSE, mgr'.messages)
                      /\ store'["undefined"].updatedAt = now
    /\ WorkerExits
          => /\ wk.stores = 0
             /\ wk'.stores = 1
             /\ wk'.exit \in {"completed", "ceiling", "provider", "tool"}
             /\ ev'.written
                   => /\ Persisted(store', "worker", wk.name, TRUE, wmessages'[wk.name])
                      /\ store'["undefined"].updatedAt = now
    /\ (~ManagerExits /\ ~WorkerExits) => NoWrite

C14_WrittenOnce ==
    /\ mgr.pc \in {"loop", "dispatch", "await"} => mgr.stores = 0
    /\ mgr.pc = "returned" => mgr.stores = 1
    /\ wk.pc \in {"loop", "dispatch"} => wk.stores = 0
    /\ wk.pc = "returned" => wk.stores = 1

C14_PersistedExactlyOnceAtExit == [](C14_WrittenOnce) /\ [][C14_WriteAtExit]_vars

\* a manager execution that delegated to a worker: the worker wrote at its
\* exit, the manager at its own, and the store holds the manager's turns
C14_Witness ==
    /\ mgr.pc = "returned"
    /\ mgr.exit = "completed"
    /\ mgr.calls = 2
    /\ mgr.stores = 1
    /\ now = 2
    /\ store["undefined"].agentType = "manager"
    /\ store["undefined"].updatedAt = 1
    /\ store["undefined"].messages = mgr.messages
    /\ HasToolTurn(mgr.messages)

-----------------------------------------------------------------------------
(* C15 *)

\* C15: the first turn of every persisted conversation is the system
\* instruction of the agent that wrote it (manager or worker, first or later
\* invocation, after resetHistory or not).
C15_FirstTurnIsSystemInstruction ==
    \A k \in DOMAIN store :
        LET turns == storedMessages(store[k])
        IN /\ Len(turns) >= 1
           /\ turns[1].role = "system"
           /\ turns[1].content =
                 (IF store[k].agentType = "manager"
                  THEN <<"manager system prompt">>
                  ELSE <<"system prompt of ", store[k].agentName>>)

\* a worker invoked directly, reset, and invoked again: the conversation
\* written by the second invocation starts with the system instruction
C15_Witness ==
    /\ mgr.pc = "idle"
    /\ wk.pc = "returned"
    /\ now = 2
    /\ store["undefined"].agentType = "worker"
    /\ store["undefined"].live
    /\ Len(wmessages[wk.name]) = 3
    /\ wmessages[wk.name][2].role = "user"
    /\ wmessages[wk.name][3].role = "assistant"

-----------------------------------------------------------------------------
(* C16 *)

\* every tool turn of the sequence carries the id of a request of the
\* nearest assistant turn before it
IdsMatch(turns) ==
    \A i \in 1..Len(turns) :
        turns[i].role = "tool"
            => \E j \in 1..(i - 1) :
                  /\ turns[j].role = "assistant"
                  /\ \A m \in (j + 1)..(i - 1) : turns[m].role # "assistant"
                  /\ "toolCalls" \in DOMAIN turns[j]
                  /\ \E c \in 1..Len(turns[j].toolCalls) :
                        turns[j].toolCalls[c].id = turns[i].toolCallId

-----------------------------------------------------------------------------
(* C17 *)

\* the window size of an agent: this.contextWindow
WindowOf(configured) ==
    IF configured = None THEN 10
    ELSE IF configured[1] = 0 THEN 10 ELSE configured[1]

\* what the policy is to transmit of the full sequence for window size w
WindowView(full, w) ==
    IF Len(full) <= w THEN full
    ELSE <<full[1]>> \o SubSeq(full, Len(full) - w + 2, Len(full))

Occurrences(turns, turn) == Cardinality({i \in 1..Len(turns) : turns[i] = turn})

WindowRespected(full, sent, w) ==
    /\ sent = WindowView(full, w)
    /\ Len(sent) <= w
    /\ sent[1] = full[1]
    /\ Occurrences(sent, full[1]) = 1

\* C17: for every window size w >= 1 and every full turn sequence of length
\* n, the sequence handed to the provider is the full sequence when n <= w,
\* and otherwise turn 1 (the system instruction) followed by the most recent
\* w-1 turns; it never has more than w turns, starts with the system
\* instruction and contains it once.
C17_WindowStep ==
    /\ (ev'.type \in {"response", "providerThrew"} /\ ev'.agent = "manager")
          => WindowRespected(mgr.messages, ev'.sent, WindowOf(cfg.manager.contextWindow))
    /\ (ev'.type \in {"response", "providerThrew"} /\ ev'.agent = "worker")
          => WindowRespected(wmessages[wk.name], ev'.sent,
                             WindowOf(cfg.workers[wk.name].contextWindow))

C17_TransmittedViewIsWindow == [][C17_WindowStep]_vars

-----------------------------------------------------------------------------
(* C18 *)

IsPrefix(short, long) ==
    Len(short) <= Len(long) /\ SubSeq(long, 1, Len(short)) = short

\* C18: applying the context-window policy never changes the retained turn
\* sequence: every step of an execution leaves all the turns appended so far
\* in place and in order (a worker's are dropped only by resetHistory), also
\* when the view handed to the provider left some of them out, and the
\* conversation written at the exit holds the whole retained sequence.
C18_RetainedStep ==
    /\ mgr.pc \in {"loop", "dispatch", "await"} => IsPrefix(mgr.messages, mgr'.messages)
    /\ ev'.type \notin {"resetWorkerHistory", "resetAllWorkerHistory"}
          => \A w \in DOMAIN wmessages : IsPrefix(wmessages[w], wmessages'[w])
    /\ (ManagerExits /\ ev'.written)
          => /\ IsPrefix(mgr.messages, store'["undefined"].messages)
             /\ store'["undefined"].agentType = "manager"
    /\ (WorkerExits /\ ev'.written)
          => /\ store'["undefined"].live
             /\ store'["undefined"].agentName = wk.name

C18_WindowLeavesRetainedSequence == [][C18_RetainedStep]_vars

\* a manager with window 3 whose provider was handed 3 of the 4 retained
\* turns: the retained and the written sequence still hold all of them
C18_Witness ==
    /\ cfg.manager.contextWindow = Some(3)
    /\ ev.type = "response"
    /\ ev.agent = "manager"
    /\ ev.response.toolCalls = <<>>
    /\ Len(ev.sent) = 3
    /\ ev.sent[2].role = "assistant"
    /\ ev.sent[3].role = "tool"
    /\ Len(mgr.messages) = 4
    /\ mgr.messages[2].role = "user"
    /\ store["undefined"].messages = mgr.messages

-----------------------------------------------------------------------------
(* C19 *)

\* the index of the user turn pushed by the current invocation
LastUser(turns) ==
    CHOOSE i \in 1..Len(turns) :
        /\ turns[i].role = "user"
        /\ \A j \in (i + 1)..Len(turns) : turns[j].role # "user"

\* a provider call of a direct invocation of a worker that retains turns of
\* an earlier direct invocation (the manager has not run, no reset since)
LaterDirectCall ==
    /\ ev'.type \in {"response", "providerThrew"}
    /\ ev'.agent = "worker"
    /\ wk.caller = "direct"
    /\ mgr.pc = "idle"
    /\ LastUser(wmessages[wk.name]) > 2

\* the view holds a turn of the sequence that was appended before the
\* current invocation's user turn (the system turn apart)
IncludesEarlierTurns(full, sent) ==
    LET start == Len(full) - Len(sent) + 2
    IN /\ sent = <<full[1]>> \o SubSeq(full, start, Len(full))
       /\ start < LastUser(full)

\* C19 as stated: in a second direct invocation of a worker (no reset in
\* between) every sequence handed to the provider includes turns appended
\* during the first invocation and has at most w turns, w the window size.
C19_Original ==
    LaterDirectCall
        => /\ IncludesEarlierTurns(wmessages[wk.name], ev'.sent)
           /\ Len(ev'.sent) <= WindowOf(cfg.workers[wk.name].contextWindow)

C19_Amended ==
    (LaterDirectCall /\ WindowOf(cfg.workers[wk.name].contextWindow) >= 3)
        => /\ wk.calls = 0 => IncludesEarlierTurns(wmessages[wk.name], ev'.sent)
           /\ Len(ev'.sent) <= WindowOf(cfg.workers[wk.name].contextWindow)

-----------------------------------------------------------------------------
(* C20 *)

\* the result of the exit taken by the step, from the response or failure
\* that caused it
ExpectedResult(frame, ceilingText) ==
    IF ev'.type = "response"
    THEN [success |-> TRUE, content |-> ev'.response.content,
          usage |-> observe(frame.observed, ev'.response.usage)]
    ELSE IF ev'.type = "ceiling"
    THEN [success |-> TRUE, content |-> ceilingText, usage |-> frame.observed]
    ELSE IF ev'.type = "providerThrew"
    THEN [success |-> FALSE, content |-> <<>>, error |-> ev'.message,
          usage |-> frame.observed]
    ELSE [success |-> FALSE, content |-> <<>>,
          error |-> <<"Tool \"", ev'.toolCall.name,
                      "\" has no implementation provided. Please add the tool implementation to the worker configuration.">>,
          usage |-> frame.observed]

\* C20: a failing store write at the exit of an execution is swallowed: the
\* execution returns, and its result (success, content, error, usage) is the
\* one the same exit returns when the write succeeds; nothing is written.
C20_ExitStep ==
    /\ ManagerExits
          => /\ mgr'.result = Some(ExpectedResult(mgr, ManagerMaxIterationsText))
             /\ ~ev'.written => store' = store
    /\ WorkerExits
          => /\ wk'.result = Some(ExpectedResult(wk, WorkerMaxIterationsText))
             /\ ~ev'.written => store' = store

C20_StoreFailureIsSwallowed == [][C20_ExitStep]_vars

\* the worker's write failed and the manager's write failed, and the manager
\* returned the response's text with success
C20_Witness ==
    /\ cfg.memory = "custom"
    /\ ev.type = "response"
    /\ ev.agent = "manager"
    /\ ev.response.toolCalls = <<>>
    /\ ~ev.written
    /\ mgr.pc = "returned"
    /\ mgr.calls = 2
    /\ mgr.result[1].success
    /\ mgr.result[1].content = <<"answer">>
    /\ DOMAIN store = {}
    /\ now = 2

-----------------------------------------------------------------------------
(* C21 *)

\* C21: when the instance is constructed without a memory configuration, no
\* execution writes to the store: the store stays empty and the clock of the
\* writes is never read.
C21_NoMemoryNoWrite ==
    cfg.memory = "none" => (DOMAIN store = {} /\ now = 0)

-----------------------------------------------------------------------------
(* C22 *)

\* the manager's turns show a request for worker w that was delegated and
\* answered by a tool turn
DelegatedTo(turns, w) ==
    /\ resolvesWorker(w)
    /\ \E i \in 1..Len(turns) :
          /\ turns[i].role = "assistant"
          /\ \E c \in 1..Len(turns[i].toolCalls) :
                /\ turns[i].toolCalls[c].name = w
                /\ \E j \in 1..Len(turns) :
                      /\ turns[j].role = "tool"
                      /\ turns[j].toolCallId = turns[i].toolCalls[c].id

Holds(conversations, agentType, agentName) ==
    \E k \in DOMAIN conversations :
        /\ conversations[k].agentType = agentType
        /\ conversations[k].agentName = agentName

\* C22: when an executeTask call in which the manager delegated to worker W
\* returns (every write having succeeded), the store holds the manager's
\* conversation and W's conversation; and no write of one agent's execution
\* removes a conversation of another agent from the store.
C22_Step ==
    /\ (ManagerExits /\ memory = "in-memory")
          => \A w \in Workers :
                DelegatedTo(mgr'.messages, w)
                   => /\ Holds(store', "manager", "manager")
                      /\ Holds(store', "worker", w)
    /\ \A k \in DOMAIN store :
          Holds(store', store[k].agentType, store[k].agentName)

C22_WritesAreIndependent == [][C22_Step]_vars

-----------------------------------------------------------------------------
(* C23 *)

\* C23: a callWorker with a name under which no worker is registered raises
\* the Error "Worker '<name>' not found" in that step: no execution is
\* started and no result returned, no provider call is made, nothing is
\* written to the store and every worker's retained turns stay as they were.
C23_Step ==
    (ev'.type \in {"callWorker", "callWorkerThrew"} /\ ev'.worker \notin Workers)
       => /\ ev'.type = "callWorkerThrew"
          /\ ev'.error = <<"Worker '", ev'.worker, "' not found">>
          /\ wk' = wk
          /\ mgr' = mgr
          /\ nCalls' = nCalls
          /\ store' = store
          /\ now' = now
          /\ wmessages' = wmessages

C23_UnknownWorkerRaises == [][C23_Step]_vars

\* the call was made after an execution of the worker left turns and a
\* stored conversation behind
C23_Witness ==
    /\ ev.type = "callWorkerThrew"
    /\ ev.worker = "ghost"
    /\ Len(wmessages["calc"]) >= 3
    /\ DOMAIN store # {}
    /\ wk.pc = "returned"

-----------------------------------------------------------------------------
(* C29 *)

\* the step is a reset of worker w's history
ResetsHistory(w) ==
    \/ ev'.type = "resetWorkerHistory" /\ ev'.worker = w
    \/ ev'.type = "resetAllWorkerHistory"

\* C29: a worker's retained turn sequence is append-only: every step of any
\* invocation (direct or delegated, whether it ends completed, at the
\* ceiling or failed) leaves the sequence as it was or appends one turn to
\* it, and only turns of the worker that is running are appended; a step
\* that shortens or rewrites the sequence is a resetHistory of that worker.
C29_Step ==
    \A w \in Workers :
        \/ ResetsHistory(w)
        \/ /\ IsPrefix(wmessages[w], wmessages'[w])
           /\ Len(wmessages'[w]) <= Len(wmessages[w]) + 1
           /\ Len(wmessages'[w]) > Len(wmessages[w]) => wk'.name = w

C29_RetainedSequenceIsAppendOnly == [][C29_Step]_vars

\* a direct invocation that failed, followed without reset by one that ran
\* into the ceiling: the turns of both are retained in order
C29_Witness ==
    /\ ops = 2
    /\ wk.pc = "returned"
    /\ wk.caller = "direct"
    /\ wk.exit = "ceiling"
    /\ Len(wmessages[wk.name]) = 5
    /\ wmessages[wk.name][2].role = "user"
    /\ wmessages[wk.name][3].role = "user"
    /\ wmessages[wk.name][5].role = "tool"

-----------------------------------------------------------------------------
(* C30 *)

\* the initial user turn of a task: title, description and priority
IsTaskTurn(turn) ==
    /\ turn.role = "user"
    /\ \E task \in Tasks :
          turn.content = <<"Task: ", task.title, "\n\nDescription: ", task.description,
                           "\n\nPriority: ", "medium">>

HoldsTaskTurn(turns) == \E i \in 1..Len(turns) : IsTaskTurn(turns[i])

ManagerCallsProvider ==
    ev'.type \in {"response", "providerThrew"} /\ ev'.agent = "manager"

\* C30: every turn sequence transmitted to the manager's provider during a
\* task contains the task's initial user turn (title, description and
\* priority), however many iterations have run and whatever the window size.
C30_Original == ManagerCallsProvider => HoldsTaskTurn(ev'.sent)

C30_TaskTurnAlwaysTransmitted == [][C30_Original]_vars

\* C30 (amended): the task's initial user turn is the second retained turn
\* of the manager, and every turn sequence transmitted to the manager's
\* provider contains it as long as the retained sequence has at most w turns,
\* w being the window size; the first provider call of a task always does.
C30_Amended ==
    ManagerCallsProvider
       => /\ IsTaskTurn(mgr.messages[2])
          /\ Len(mgr.messages) <= WindowOf(cfg.manager.contextWindow)
                => HoldsTaskTurn(ev'.sent)
          /\ mgr.calls = 0 => HoldsTaskTurn(ev'.sent)

C30_TaskTurnTransmittedWithinWindow == [][C30_Amended]_vars

\* the second provider call of a task under the default window: the four
\* retained turns were transmitted, the task's user turn among them
C30_Witness ==
    /\ ev.type = "response"
    /\ ev.agent = "manager"
    /\ cfg.manager.contextWindow = None
    /\ mgr.calls = 2
    /\ Len(ev.sent) = 4
    /\ IsTaskTurn(ev.sent[2])
    /\ ev.sent[4].role = "tool"

-----------------------------------------------------------------------------
(* C28 *)

\* the turns a stored conversation shows after the step
StoredTurnsAfter(k) ==
    IF store'[k].live THEN wmessages'[store'[k].agentName] ELSE store'[k].messages

\* the store shows after the step what it showed before it
StoreReadsTheSame ==
    /\ DOMAIN store' = DOMAIN store
    /\ \A k \in DOMAIN store :
          /\ store'[k].agentType = store[k].agentType
          /\ store'[k].agentName = store[k].agentName
          /\ store'[k].createdAt = store[k].createdAt
          /\ store'[k].updatedAt = store[k].updatedAt
          /\ StoredTurnsAfter(k) = storedMessages(store[k])

SystemTurnOf(w) == [role |-> "system", content |-> <<"system prompt of ", w>>]

\* the first provider call of a worker invocation
FirstWorkerCall ==
    /\ ev'.type \in {"response", "providerThrew"}
    /\ ev'.agent = "worker"
    /\ wk.calls = 0

\* what follows a reset: the invocation started on a sequence holding the
\* system turn alone retains [system turn, new user turn], and its first
\* provider call transmits the two when the window size is smallest or more
C28_NextInvocation(smallest) ==
    /\ \A w \in Workers :
          (ev'.type \in {"callWorker", "delegated"} /\ wk'.name = w
              /\ wmessages[w] = <<SystemTurnOf(w)>>)
             => /\ Len(wmessages'[w]) = 2
                /\ wmessages'[w][1] = SystemTurnOf(w)
                /\ wmessages'[w][2].role = "user"
    /\ (FirstWorkerCall /\ Len(wmessages[wk.name]) = 2
            /\ WindowOf(cfg.workers[wk.name].contextWindow) >= smallest)
          => ev'.sent = wmessages[wk.name]

\* resetWorkerHistory and resetAllWorkerHistory themselves
C28_Reset ==
    /\ ev'.type = "resetWorkerHistory"
          => /\ ev'.worker \in Workers
             /\ wmessages'[ev'.worker] = <<SystemTurnOf(ev'.worker)>>
             /\ \A w \in Workers \ {ev'.worker} : wmessages'[w] = wmessages[w]
             /\ StoreReadsTheSame
             /\ UNCHANGED <<mgr, wk, nCalls, now>>
    /\ ev'.type = "resetWorkerHistoryThrew"
          => /\ ev'.worker \notin Workers
             /\ ev'.error = <<"Worker '", ev'.worker, "' not found">>
             /\ UNCHANGED <<mgr, wk, wmessages, store, nCalls, now>>
    /\ ev'.type = "resetAllWorkerHistory"
          => /\ \A w \in Workers : wmessages'[w] = <<SystemTurnOf(w)>>
             /\ StoreReadsTheSame
             /\ UNCHANGED <<mgr, wk, nCalls, now>>

\* C28: resetWorkerHistory(name) leaves the named worker with the system
\* turn alone, so that the first provider call of its next invocation
\* transmits exactly [system turn, new user turn]; the other workers'
\* sequences and the store stay as they were; for an unregistered name it
\* raises "Worker '<name>' not found" and changes nothing;
\* resetAllWorkerHistory does the same for every registered worker.
C28_Original == C28_Reset /\ C28_NextInvocation(1)

C28_ResetLeavesSystemTurn == [][C28_Original]_vars

\* C28 (amended): the same, the transmitted sequence being exactly
\* [system turn, new user turn] for every window size w >= 2.
C28_Amended == C28_Reset /\ C28_NextInvocation(2)

C28_ResetLeavesSystemTurnWithinWindow == [][C28_Amended]_vars

\* a worker invoked directly, reset after its invocation had written its
\* conversation, and invoked again: the first provider call of the second
\* invocation was handed the system turn and the new user turn
C28_Witness ==
    /\ Workers = {"calc"}
    /\ cfg.workers["calc"].contextWindow = None
    /\ ops = 2
    /\ nCalls = 2
    /\ mgr.pc = "idle"
    /\ wk.caller = "direct"
    /\ wk.calls = 1
    /\ ev.type = "response"
    /\ ev.agent = "worker"
    /\ Len(ev.sent) = 2
    /\ ev.sent[1] = SystemTurnOf("calc")
    /\ ev.sent[2].role = "user"
    /\ DOMAIN store # {}

-----------------------------------------------------------------------------
(* C24 *)

\* the stored conversations that satisfy every supplied filter
Matching(conversations, options) ==
    {k \in DOMAIN conversations :
        /\ options.agentType # None => conversations[k].agentType = options.agentType[1]
        /\ options.agentName # None => conversations[k].agentName = options.agentName[1]
        /\ options.startDate # None => conversations[k].createdAt >= options.startDate[1]
        /\ options.endDate # None => conversations[k].createdAt <= options.endDate[1]}

\* the orderings of the keys from the most to the least recently updated
Orderings(conversations, keys) ==
    {o \in [1..Cardinality(keys) -> keys] :
        /\ \A i, j \in 1..Cardinality(keys) : i # j => o[i] # o[j]
        /\ \A i, j \in 1..Cardinality(keys) :
              i < j => conversations[o[i]].updatedAt >= conversations[o[j]].updatedAt}

\* result is the page [offset, offset + limit) of an ordering of the
\* matching conversations; an option that is not supplied is 0 for the
\* offset and no restriction for the limit
IsPage(conversations, options, result) ==
    LET keys == Matching(conversations, options)
        m == Cardinality(keys)
        offset == IF options.offset = None THEN 0 ELSE options.offset[1]
        limit == IF options.limit = None THEN m ELSE options.limit[1]
        left == IF m > offset THEN m - offset ELSE 0
        size == IF limit < left THEN limit ELSE left
    IN /\ Len(result) = size
       /\ \E o \in Orderings(conversations, keys) :
             \A i \in 1..size : result[i] = conversations[o[offset + i]]

\* C24: queryConversations returns the stored conversations that satisfy
\* all supplied filters, ordered from the most to the least recently
\* updated and restricted to the positions [offset, offset + limit) of
\* that ordering; it returns at most limit conversations for every supplied
\* limit >= 0, and it leaves the store as it was.
C24_Step ==
    ev'.type = "queryConversations"
       => /\ IsPage(store, ev'.options, ev'.results)
          /\ ev'.options.limit # None => Len(ev'.results) <= ev'.options.limit[1]
          /\ store' = store

C24_QueryReturnsThePage == [][C24_Step]_vars

-----------------------------------------------------------------------------
(* C27 *)

\* the bound of an agent: its configured ceiling, or the default
BoundOf(configured, default) == IF configured = None THEN default ELSE configured[1]

ManagerBound == BoundOf(cfg.manager.maxIterations, 20)
WorkerBound(w) == BoundOf(cfg.workers[w].maxIterations, 25)

C27_WithinOwnBound ==
    /\ mgr.iteration <= ManagerBound
    /\ mgr.calls <= ManagerBound
    /\ WorkerActive => (wk.iteration <= WorkerBound(wk.name) /\ wk.calls <= WorkerBound(wk.name))

\* the loop of an agent is left at the ceiling after as many rounds as its
\* own bound says, and below its own bound it goes on
C27_Step ==
    /\ (ev'.type = "ceiling" /\ ev'.agent = "manager") => mgr.iteration = ManagerBound
    /\ (ev'.type = "ceiling" /\ ev'.agent = "worker") => wk.iteration = WorkerBound(wk.name)
    /\ (mgr.pc = "loop" /\ mgr.iteration < ManagerBound) => ~ENABLED ManagerCeiling
    /\ (wk.pc = "loop" /\ wk.iteration < WorkerBound(wk.name)) => ~ENABLED WorkerCeiling

-----------------------------------------------------------------------------
(* C26 *)

\* the model makes no provider call beyond MaxCalls
BudgetUsed == nCalls = MaxCalls

ManagerRuns == mgr.pc \in {"loop", "dispatch", "await"}
WorkerRuns == wk.pc \in {"loop", "dispatch"}

C26_WithinCeiling ==
    /\ mgr.iteration <= CeilingOf(cfg.manager.maxIterations, 20)
    /\ WorkerRuns => wk.iteration <= CeilingOf(cfg.workers[wk.name].maxIterations, 25)
    /\ mgr.pc = "returned" => mgr.result # None
    /\ wk.pc = "returned" => wk.result # None

\* C26: provided every provider call, tool call and store call returns or
\* raises, every execution of a worker and of the manager eventually returns
\* a result (as far as the provider calls of the model reach), after at
\* most as many iterations as its ceiling says, the runs of the workers the
\* manager delegated to included.
C26_EveryExecutionReturns ==
    /\ [](C26_WithinCeiling)
    /\ (WorkerRuns ~> (wk.pc = "returned" \/ BudgetUsed))
    /\ (ManagerRuns ~> (mgr.pc = "returned" \/ BudgetUsed))

\* a manager without configured ceiling has returned at the ceiling after
\* 20 rounds, provider calls of the model left
C26_Witness ==
    /\ mgr.pc = "returned"
    /\ mgr.exit = "ceiling"
    /\ mgr.iteration = 20
    /\ mgr.result # None
    /\ ~BudgetUsed

-----------------------------------------------------------------------------
(* C25 *)

\* a call of the worker was made while another one was suspended
Overlapped == wk2.pc # "idle"

\* every tool turn follows the assistant turn that carries its request,
\* with nothing but tool turns in between
ToolTurnsFollow(turns) ==
    \A i \in 1..Len(turns) :
        turns[i].role = "tool"
            => \E j \in 1..(i - 1) :
                  /\ turns[j].role = "assistant"
                  /\ "toolCalls" \in DOMAIN turns[j]
                  /\ \E c \in 1..Len(turns[j].toolCalls) :
                        turns[j].toolCalls[c].id = turns[i].toolCallId
                  /\ \A m \in (j + 1)..(i - 1) : turns[m].role = "tool"

\* the provider call just made by the call of wk transmitted a turn that
\* was pushed after that call's own user turn, and not by that call
TransmittedForeignTurn ==
    /\ ev.type \in {"response", "providerThrew"}
    /\ ev.agent = "worker"
    /\ LET full == Len(wmessages[wk.name]) - (IF ev.type = "response" THEN 1 ELSE 0)
       IN \E i \in 2..Len(ev.sent) :
             LET position == full - Len(ev.sent) + i
             IN /\ position \notin wk.own
                /\ \E o \in wk.own : o < position

\* C25: two calls of the same worker that overlap push on the one shared
\* sequence of the worker (there is no lock); a provider call that transmits
\* turns pushed by another call during the call's own run, and a tool turn
\* that does not directly follow its own assistant turn, occur only when
\* calls overlapped: with serialized calls no such state is reached.
C25_InterleavingOnlyWhenOverlapping ==
    /\ Overlapped => (wk2.name = wk.name /\ wk2.own \cap wk.own = {})
    /\ TransmittedForeignTurn => Overlapped
    /\ \A w \in Workers : ~ToolTurnsFollow(wmessages[w]) => Overlapped

\* an interleaving of two overlapping calls: the tool turn of the first
\* call came after the user turn of the second, and a provider call then
\* transmitted a turn of the other call
C25_Witness ==
    /\ Overlapped
    /\ TransmittedForeignTurn
    /\ ~ToolTurnsFollow(wmessages["calc"])

-----------------------------------------------------------------------------
(* C31 *)

\* every tool turn of the sequence comes after an assistant turn of the
\* sequence that carries the request with the tool turn's id
RequestsKept(turns) ==
    \A i \in 1..Len(turns) :
        turns[i].role = "tool"
            => \E j \in 1..(i - 1) :
                  /\ turns[j].role = "assistant"
                  /\ "toolCalls" \in DOMAIN turns[j]
                  /\ \E c \in 1..Len(turns[j].toolCalls) :
                        turns[j].toolCalls[c].id = turns[i].toolCallId

\* C31: in every turn sequence transmitted to a provider (the view built by
\* applyContextWindow, of the manager and of a worker), each tool turn is
\* preceded within the view by the assistant turn that carries its request:
\* the window never keeps a tool turn while dropping its assistant turn.
C31_WindowKeepsRequestWithToolTurn ==
    ev.type \in {"response", "providerThrew"} => RequestsKept(ev.sent)

-----------------------------------------------------------------------------
(* C32 *)

\* the number of requests an assistant turn carries
RequestCount(turn) == IF "toolCalls" \in DOMAIN turn THEN Len(turn.toolCalls) ELSE 0

\* every assistant turn of the sequence that carries k requests is followed
\* immediately by exactly k tool turns, which answer its requests
RequestsAnswered(turns) ==
    \A j \in 1..Len(turns) :
        turns[j].role = "assistant"
            => LET k == RequestCount(turns[j])
               IN /\ j + k <= Len(turns)
                  /\ \A c \in 1..k :
                        /\ turns[j + c].role = "tool"
                        /\ turns[j + c].toolCallId = turns[j].toolCalls[c].id
                  /\ j + k + 1 <= Len(turns) => turns[j + k + 1].role # "tool"

\* an invocation of a worker has just started: its user turn was pushed
InvocationStarts == ev.type \in {"callWorker", "delegated"}

\* C32: at every point where an invocation of a worker starts (its user turn
\* has just been appended to the worker's retained sequence), every earlier
\* assistant turn of the sequence that carries k requests is followed
\* immediately by exactly k tool turns answering them, also when the
\* invocation before ended in a fatal error.
C32_RequestsAnsweredAtInvocationStart ==
    InvocationStarts => RequestsAnswered(wmessages[wk.name])

-----------------------------------------------------------------------------
(* C33 *)

\* the sequence holds exactly one system turn, and holds it first
OneSystemTurn(turns) ==
    /\ Len(turns) >= 1
    /\ turns[1].role = "system"
    /\ \A i \in 2..Len(turns) : turns[i].role # "system"

\* the user turns of the sequence: one per invocation since the last reset
UserTurns(turns) == {i \in 1..Len(turns) : turns[i].role = "user"}

-----------------------------------------------------------------------------
(* C34 *)

\* the tasks a client hands to executeTask
AllTasks == Tasks \cup OverlappingTasks

\* a call of executeTask starts: its turn sequence is built from its task
\* alone, and the sequence of a call that is suspended is left as it is
C34_Start ==
    ev'.type = "executeTask"
        => /\ mgr'.messages = <<managerSystemMessage, managerUserMessage(ev'.task)>>
           /\ mgr2'.messages \in {mgr2.messages, mgr.messages}

\* the first provider call of a call of executeTask transmits the system
\* instruction and the user turn of the task of that call, and nothing else,
\* when the manager's window size is smallest or more
C34_FirstCall(smallest) ==
    (/\ ev'.type \in {"response", "providerThrew"}
     /\ ev'.agent = "manager"
     /\ mgr.calls = 0
     /\ WindowOf(cfg.manager.contextWindow) >= smallest)
        => /\ \E task \in AllTasks :
                 mgr.messages = <<managerSystemMessage, managerUserMessage(task)>>
           /\ ev'.sent = mgr.messages

\* a step of one call leaves the turns of the other call alone: the call
\* that goes on keeps its turns and appends at most one, the suspended call
\* keeps its sequence; a switch hands both sequences over as they are
C34_Apart ==
    /\ ev'.type = "switchTask"
          => mgr'.messages = mgr2.messages /\ mgr2'.messages = mgr.messages
    /\ ev'.type \notin {"switchTask", "executeTask"}
          => /\ mgr2'.messages = mgr2.messages
             /\ IsPrefix(mgr.messages, mgr'.messages)
             /\ Len(mgr'.messages) <= Len(mgr.messages) + 1

\* C34: the manager's turn sequence is local to one executeTask call: the
\* first provider call of every task transmits exactly [system instruction,
\* the user turn of that task], whatever tasks ran before it or are running
\* at the same time, and two executeTask calls never read or append to each
\* other's manager turns.
C34_Original == C34_Start /\ C34_FirstCall(1) /\ C34_Apart

C34_ManagerTurnsAreLocal == [][C34_Original]_vars

\* C34 (amended): the same, the first provider call transmitting exactly
\* [system instruction, the user turn of that task] for every manager
\* window size w >= 2.
C34_Amended == C34_Start /\ C34_FirstCall(2) /\ C34_Apart

C34_ManagerTurnsAreLocalWithinWindow == [][C34_Amended]_vars

\* two tasks overlap: the first provider call of the second task was handed
\* the system instruction and the user turn of the second task, while the
\* suspended first task holds the turns of a round of its own
C34_Witness ==
    /\ mgr2.pc # "idle"
    /\ mgr2.calls >= 1
    /\ Len(mgr2.messages) > 2
    /\ mgr.calls = 1
    /\ ev.type = "response"
    /\ ev.agent = "manager"
    /\ \E task \in OverlappingTasks :
          ev.sent = <<managerSystemMessage, managerUserMessage(task)>>
    /\ mgr2.messages[2] # ev.sent[2]

-----------------------------------------------------------------------------
(* C35 *)

\* C35: the restrictedWorkers list constrains the manager's delegation only:
\* callWorker on a registered worker, restricted or not, raises nothing and
\* starts the worker's execution on the worker's retained turns, and the
\* execution returns the result its exit makes, the same for a restricted
\* worker as for any other.
C35_Step ==
    /\ (ev'.type \in {"callWorker", "callWorkerThrew"} /\ ev'.worker \in Workers)
          => /\ ev'.type = "callWorker"
             /\ wk'.pc = "loop"
             /\ wk'.name = ev'.worker
             /\ wk'.caller = "direct"
             /\ wmessages'[ev'.worker]
                   = Append(wmessages[ev'.worker], workerUserMessage(ev'.params))
    /\ (WorkerExits /\ wk.caller = "direct")
          => /\ wk'.name = wk.name
             /\ wk'.result = Some(ExpectedResult(wk, WorkerMaxIterationsText))

C35_RestrictionBindsDelegationOnly == [][C35_Step]_vars

\* the manager was refused the delegation to a worker of its
\* restrictedWorkers list; the same worker, called directly afterwards, ran
\* and returned the text of its provider's response
C35_Witness ==
    /\ mgr.pc = "returned"
    /\ "unresolved" \in mgr.seen
    /\ \E i \in 1..Len(mgr.messages) :
          /\ mgr.messages[i].role = "tool"
          /\ mgr.messages[i].content = unresolvedWorkerText(wk.name)
    /\ IsRestricted(wk.name)
    /\ wk.name \in Workers
    /\ wk.caller = "direct"
    /\ wk.pc = "returned"
    /\ wk.exit = "completed"
    /\ wk.result[1].success
    /\ wk.result[1].content = <<"answer">>

-----------------------------------------------------------------------------
(* C36 *)

\* C36: after any sequence of storeConversation, updateConversation,
\* deleteConversation and clear on the in-memory store, the number of stored
\* conversations never exceeds maxConversations.
C36_SizeWithinLimit == Cardinality(DOMAIN store) <= maxConversations

-----------------------------------------------------------------------------
(* C37 *)

\* the key under which the step's storeConversation stores
StoredKey == conversationId(ev'.conversation)

\* C37: storeConversation with a key the store already holds replaces that
\* conversation and removes no other one, also when the store is at its
\* limit; a conversation is evicted only when a new key is inserted into a
\* store at its limit.
C37_Step ==
    ev'.type = "storeConversation"
        => /\ StoredKey \in DOMAIN store
                 => /\ DOMAIN store' = DOMAIN store
                    /\ store'[StoredKey] = ev'.conversation
                    /\ \A k \in DOMAIN store \ {StoredKey} : store'[k] = store[k]
           /\ DOMAIN store \ DOMAIN store' # {}
                 => /\ StoredKey \notin DOMAIN store
                    /\ Cardinality(DOMAIN store) >= maxConversations

C37_ReplacingEvictsNothing == [][C37_Step]_vars

-----------------------------------------------------------------------------
(* C38 *)

\* the keys of the conversations with the smallest updatedAt
Oldest(conversations) ==
    {k \in DOMAIN conversations :
        \A j \in DOMAIN conversations :
            conversations[k].updatedAt <= conversations[j].updatedAt}

\* C38: storeConversation on a store that already holds maxConversations
\* conversations removes exactly one of them, one with the smallest
\* updatedAt among those stored, and stores the new one: afterwards the store
\* holds the other conversations as they were, and the new conversation is
\* retrievable under its key.
C38_Step ==
    (ev'.type = "storeConversation" /\ Cardinality(DOMAIN store) = maxConversations)
        => /\ \E removed \in Oldest(store) :
                 /\ DOMAIN store' = (DOMAIN store \ {removed}) \cup {StoredKey}
                 /\ \A k \in DOMAIN store \ {removed, StoredKey} : store'[k] = store[k]
           /\ getConversation(store', StoredKey) = Some(ev'.conversation)

C38_OldestEvictedAtLimit == [][C38_Step]_vars

-----------------------------------------------------------------------------
(* C39 *)

\* the step performs an operation of the store: the write at the exit of an
\* execution, or an operation called by a client
StoreOperation ==
    \/ ManagerExits
    \/ WorkerExits
    \/ ev'.type \in {"storeConversation", "updateConversation", "deleteConversation",
                     "clear"}

\* C39: a conversation held in the store is a snapshot: the turns it shows
\* change only through an operation of the store; the turns a worker appends
\* to its retained sequence in a later invocation do not show in the stored
\* conversation before that invocation writes to the store itself.
C39_Step ==
    ~StoreOperation
        => \A k \in DOMAIN store :
              k \in DOMAIN store' /\ StoredTurnsAfter(k) = storedMessages(store[k])

C39_StoredConversationIsSnapshot == [][C39_Step]_vars

====
